---- MODULE Spec2Model ----
(***************************************************************************)
(* Ghost-Write: the annotation session (tool state, drawing handlers, the  *)
(* chunked area fill) and the eraser of utils/image-processing.            *)
(*                                                                         *)
(* The specifications share the variables.                                 *)
(*  - Spec: the editing session of one page.  A raster buffer is           *)
(*    represented by its size, the image it was loaded from and the set of *)
(*    writes applied to it since ("marks"); getImageData copies the        *)
(*    canvas, putImageData overwrites it.  Coordinates are whole pixels.   *)
(*  - SpecDoc: the session together with the document state: saving a     *)
(*    page and navigating between pages, which remounts the canvas.        *)
(*  - SpecMask: setBrushSize and the brush mask memoised from it.          *)
(*  - SpecExport: the steps of the document: page requests with any index, *)
(*    saving, and handleExport with its awaits and its timer.              *)
(*    SpecExportLive adds the fairness of the promises and the timer.      *)
(*  - SpecFill: one applyMagicBrushToArea call from its first suspension   *)
(*    on, for many selections and brush sizes.  SpecFillLive adds the      *)
(*    fairness of its timer-driven steps.                                  *)
(*  - SpecPixel: applyEraser on concrete RGBA arrays, laid out as          *)
(*    ImageData.data is (4 entries per pixel, row-major, index from 0).    *)
(*    Coordinates are in half pixels, so that Math.round sees the .5 case. *)
(*  - SpecBrush: applyMagicBrush on the same arrays, the random samples    *)
(*    being chosen nondeterministically.                                   *)
(*  - SpecSmooth: applyFinalSmoothing on the same arrays, with rectangles  *)
(*    on whole and on half pixels; array indices are computed as the code  *)
(*    computes them.                                                       *)
(***************************************************************************)
EXTENDS Integers, Sequences, FiniteSets, TLC

(* ------------------------------------------------------------------ *)
(* Program constants                                                   *)
(* ------------------------------------------------------------------ *)
AREA_MAGIC_BRUSH == "area-magic-brush"
ERASER == "eraser"
PEN == "pen"
TOOLS == {AREA_MAGIC_BRUSH, ERASER, PEN}

DEFAULT_BRUSH_SIZE == 20
PROCESSING_CHUNK_SIZE == 100
MIN_AREA_SIZE == 5
MIN_GRID_SIZE == 5
SLIDER_MIN == 5
SLIDER_MAX == 50
\* the canvas context is created with alpha: false, so every alpha it returns is 255
OPAQUE == 255
\* numSearchSamples and the length of sortedColors
NUM_SEARCH_SAMPLES == 25
TOP_COLORS == 10
\* applyFinalSmoothing: kernel size, colour sigma, padding
SMOOTHING_KERNEL_SIZE == 5
COLOR_SIGMA == 150
SMOOTHING_PADDING == 10
\* the least common multiple of 1 .. 10
WEIGHT_SCALE == 2520

(* ------------------------------------------------------------------ *)
(* Bounds of the model                                                 *)
(* ------------------------------------------------------------------ *)
\* largest pointer coordinate of the session
MaxXY == 80
\* longest annotatedAreas list the eraser and the pen append to
MaxAnnotations == 2
\* input events (pointer, toolbar, save, load, resize, cancel) of one behaviour
MaxEvents == 8
\* largest selection coordinate of SpecFill
MaxFillXY == 125
\* largest brush size of SpecMask below the slider's maximum
MaxBrushSize == 24
\* pages of the document (imageUrls.length)
NumPages == 2
\* width and height of the raster of SpecPixel
PxW == 5
PxH == 4
\* width and height of the raster of SpecSmooth
SmW == 18
SmH == 19

\* the brush sizes the slider is moved between
BrushSizes == {SLIDER_MIN, DEFAULT_BRUSH_SIZE}
\* pointer positions: they give a 0x0, an 80x3, a 0x77 and an 80x80 selection
Points == {<<0, 0>>, <<MaxXY, 3>>, <<MaxXY, MaxXY>>}
\* the page shown by the canvas
PageW == MaxFillXY + 20
PageH == MaxFillXY + 10

\* SpecFill: selection corners and brush sizes
FillCoords == {0, 5, 40, MaxFillXY}
FillPoints == FillCoords \X FillCoords
FillBrushSizes == {SLIDER_MIN, DEFAULT_BRUSH_SIZE, SLIDER_MAX}

\* SpecPixel: pointer positions in half pixels, brush sizes, raster contents
PxHalfX == -3 .. (2 * PxW + 1)
PxHalfY == -3 .. (2 * PxH + 1)
PxBrushSizes == {SLIDER_MIN, SLIDER_MIN + 1}
PxSeeds == {0, 7}
PxKinds == {"clean", "painted", "mixed"}

Null == <<>>

Min(a, b) == IF a < b THEN a ELSE b
Max(a, b) == IF a > b THEN a ELSE b
Abs(a) == IF a < 0 THEN -a ELSE a

(* ------------------------------------------------------------------ *)
(* Raster buffers of the session                                       *)
(* ------------------------------------------------------------------ *)
\* a write applied to a buffer: a selection rectangle, one chunk of a fill,
\* the smoothing pass of a fill, an eraser dab, a pen segment
Mark(t, f, k, a, b) == [t |-> t, f |-> f, k |-> k, a |-> a, b |-> b]
RectMark(a, b) ==
  Mark("rect", 0, 0, <<Min(a[1], b[1]), Min(a[2], b[2])>>,
       <<Abs(b[1] - a[1]), Abs(b[2] - a[2])>>)
ChunkMark(f, k) == Mark("chunk", f, k, Null, Null)
SmoothMark(f) == Mark("smooth", f, 0, Null, Null)
EraserMark(p) == Mark("eraser", 0, 0, p, Null)
PenMark(p) == Mark("pen", 0, 0, p, Null)

NullImage == [w |-> 0, h |-> 0, img |-> "none", marks |-> {}]
PageImage == [w |-> PageW, h |-> PageH, img |-> "page", marks |-> {}]

Paint(buf, m) == [buf EXCEPT !.marks = @ \cup {m}]

VARIABLES
  \* AnnotationState (annotation-context reducer)
  tool, brushSize, isErasing, isDrawing, areaStart, areaEnd,
  isProcessingArea, processingProgress, originalImageData, tempImageData,
  annotatedAreas,
  \* the memoised generateBrushMask(brushSize) of AnnotationProvider
  brushMask,
  \* useDrawingHandlers refs
  lastPosition, isEndingDrag,
  \* the canvas element's pixels (the working buffer) and the loaded image
  canvas, image,
  \* DocumentState: the saved entry of every page and the page shown
  annotatedImages, currentPageIndex,
  \* DocumentState: the step shown, the export's progress and error, and the
  \* position of the running handleExport call
  \* (docProgress is DocumentState.progress; error is Null or <<message>>)
  currentStep, error, docProgress, exportJob,
  \* history: the canvas and the annotation list of each page when it was left
  pageLeft,
  \* the area fills started so far (running, finished or failed)
  fills,
  \* the input events handled so far
  nEvents,
  \* SpecPixel: the canvas and the original as arrays, the buffers before each
  \* eraser application, and the last eraser application
  pxWorking, pxOriginal, pxBefore, pxOp

annVars == <<tool, brushSize, brushMask, isErasing, isDrawing, areaStart, areaEnd,
             isProcessingArea, processingProgress, originalImageData,
             tempImageData, annotatedAreas>>
refVars == <<lastPosition, isEndingDrag>>
pxVars == <<pxWorking, pxOriginal, pxBefore, pxOp>>
stepVars == <<currentStep, error, docProgress, exportJob>>
docVars == <<annotatedImages, currentPageIndex, pageLeft, stepVars>>
vars == <<annVars, refVars, canvas, image, docVars, fills, nEvents, pxVars>>

\* one more input event is handled
Event == nEvents < MaxEvents /\ nEvents' = nEvents + 1

(* ------------------------------------------------------------------ *)
(* Annotation records (AnnotatedArea); -1 stands for an absent field   *)
(* ------------------------------------------------------------------ *)
Area(type, x, y, x2, y2, radius) ==
  [type |-> type, x |-> x, y |-> y, x2 |-> x2, y2 |-> y2, radius |-> radius]

\* reducer, ADD_ANNOTATED_AREA
AddAnnotatedArea(list, area) == Append(list, area)

(* ------------------------------------------------------------------ *)
(* generateBrushMask                                                   *)
(* ------------------------------------------------------------------ *)
\* a mask that keeps the cells with |i| + |j| <= radius
GenerateDiamondMask(size) ==
  LET radius == size \div 2
      diameter == 2 * radius + 1
  IN [index \in 0 .. (diameter * diameter - 1) |->
        LET i == (index \div diameter) - radius
            j == (index % diameter) - radius
        IN IF Abs(i) + Abs(j) > radius THEN 0 ELSE 1]

\* a mask whose cells are all 1
GenerateSquareMask(size) ==
  LET radius == size \div 2
      diameter == 2 * radius + 1
  IN [index \in 0 .. (diameter * diameter - 1) |-> 1]

\* generateBrushMask: cell (i + radius) * diameter + (j + radius) is 0 when
\* sqrt(i*i + j*j) > radius
GenerateBrushMask(size) ==
  LET radius == size \div 2
      diameter == 2 * radius + 1
  IN [index \in 0 .. (diameter * diameter - 1) |->
        LET i == (index \div diameter) - radius
            j == (index % diameter) - radius
        IN IF i * i + j * j > radius * radius THEN 0 ELSE 1]

(* ------------------------------------------------------------------ *)
(* DocumentState                                                       *)
(* ------------------------------------------------------------------ *)
Pages == 0 .. (NumPages - 1)

\* imageUrls[p], the rendered page p
ImageUrls(p) ==
  IF p = 0 THEN PageImage ELSE [PageImage EXCEPT !.img = "later page", !.w = PageW + p]

\* annotatedImages[p] of a page that was never saved
NoEntry == [imageData |-> NullImage, annotatedAreas |-> <<>>]

\* no handleExport call is running; outcome is that of the last call
NoExport == [pc |-> "idle", outcome |-> "none", images |-> <<>>]

\* documentReducer initialState, after the upload showed page 0
InitDocument ==
  /\ annotatedImages = [p \in Pages |-> NoEntry]
  /\ currentPageIndex = 0
  /\ pageLeft = [p \in Pages |-> Null]
  /\ currentStep = "annotate"
  /\ error = Null
  /\ docProgress = 0
  /\ exportJob = NoExport

(* ------------------------------------------------------------------ *)
(* applyMagicBrushToArea: geometry and progress                        *)
(* ------------------------------------------------------------------ *)
\* x1, y1, x2, y2 of applyMagicBrushToArea
NormRect(aS, aE) ==
  [x1 |-> Min(aS[1], aE[1]), y1 |-> Min(aS[2], aE[2]),
   x2 |-> Max(aS[1], aE[1]), y2 |-> Max(aS[2], aE[2])]

GridSize(bs) == Max(bs \div 3, MIN_GRID_SIZE)

\* iterations of a loop that stops before its upper limit
RECURSIVE LoopCountExclusive(_, _, _)
LoopCountExclusive(lo, hi, step) ==
  IF lo >= hi THEN 0 ELSE 1 + LoopCountExclusive(lo + step, hi, step)

\* iterations of  for (v = lo; v <= hi; v += step)
RECURSIVE LoopCount(_, _, _)
LoopCount(lo, hi, step) ==
  IF lo > hi THEN 0 ELSE 1 + LoopCount(lo + step, hi, step)

\* points.length after the two nested loops
NumPoints(x1, y1, x2, y2, g) == LoopCount(y1, y2, g) * LoopCount(x1, x2, g)

\* Math.ceil(points.length / 100)
TotalChunks(n) ==
  (n + PROCESSING_CHUNK_SIZE - 1) \div PROCESSING_CHUNK_SIZE

\* Math.round(q) for the rational q = num / den >= 0
RoundDiv(num, den) == (2 * num + den) \div (2 * den)

\* progress that divides by one chunk too many
ChunkProgressShort(currentChunk, totalChunks) ==
  Min(100, RoundDiv(currentChunk * 100, totalChunks + 1))

\* Math.min(100, Math.round((currentChunk / totalChunks) * 100))
ChunkProgress(currentChunk, totalChunks) ==
  Min(100, RoundDiv(currentChunk * 100, totalChunks))

\* an end index that takes one point too many
ChunkEndLong(k, n) ==
  Min(k * PROCESSING_CHUNK_SIZE + PROCESSING_CHUNK_SIZE + 1, n)

\* startIdx and endIdx of processNextChunk for currentChunk = k
ChunkStart(k) == k * PROCESSING_CHUNK_SIZE
ChunkEnd(k, n) == Min(ChunkStart(k) + PROCESSING_CHUNK_SIZE, n)

\* the indices i of  for (i = startIdx; i < endIdx; i++)
ChunkRange(k, n) == [startIdx |-> ChunkStart(k), endIdx |-> ChunkEnd(k, n)]

\* points[i]: the loops push row by row, x running inside y
PointAt(x1, y1, x2, g, i) ==
  LET perRow == LoopCount(x1, x2, g)
  IN [x |-> x1 + (i % perRow) * g, y |-> y1 + (i \div perRow) * g]

\* the record handed to onComplete
CompletionRecord(x1, y1, x2, y2) == Area(AREA_MAGIC_BRUSH, x1, y1, x2, y2, -1)

\* the pass of applyFinalSmoothing over a fill's buffer
ApplyFinalSmoothing(f, buf) == Paint(buf, SmoothMark(f))

\* one chunk of applyMagicBrush calls on a fill's buffer
ApplyChunk(f, k, buf) == Paint(buf, ChunkMark(f, k))

\* the catch block of applyMagicBrushToArea logs, reports progress 0 and
\* returns: it does not throw again
CatchRethrows == FALSE

\* how the promise of applyMagicBrushToArea settles after its catch block
Settled == IF CatchRethrows THEN "rejected" ELSE "resolved"

Ev(e, v) == [e |-> e, v |-> v]

\* the canvas after  if (tempImageData) putImageData(tempImageData)
Restored(temp, cnv) == IF temp # NullImage THEN temp ELSE cnv

\* the coroutine of one applyMagicBrushToArea call, up to its first suspension:
\* onProgressUpdate(0), the snapshot is put back, the canvas is read once, and
\* chunk 0 runs inside the first processNextChunk promise.  When chunk 0 throws
\* the catch block runs in the same task and the call has ended.
NewFill(f, aS, aE, temp, cnv, bs, throws) ==
  LET r == NormRect(aS, aE)
      n == NumPoints(r.x1, r.y1, r.x2, r.y2, GridSize(bs))
      total == TotalChunks(n)
  IN [ areaStart |-> aS, areaEnd |-> aE,
       x1 |-> r.x1, y1 |-> r.y1, x2 |-> r.x2, y2 |-> r.y2,
       brushSize |-> bs,
       snapshot |-> IF throws THEN NullImage ELSE Restored(temp, cnv),
       numPoints |-> n,
       totalChunks |-> total,
       currentChunk |-> IF throws THEN 0 ELSE 1,
       processed |-> IF throws THEN <<>> ELSE <<ChunkRange(0, n)>>,
       currentImageData |->
         IF throws THEN NullImage ELSE ApplyChunk(f, 0, Restored(temp, cnv)),
       pc |-> IF throws THEN "failed" ELSE "yield",
       promise |-> IF throws THEN Settled ELSE "pending",
       log |-> IF throws
                 THEN <<Ev("progress", 0), Ev("progress", 0)>>
                 ELSE <<Ev("progress", 0), Ev("chunk", 0),
                        Ev("progress", ChunkProgress(1, total)),
                        Ev("yield", 0)>>,
       completions |-> <<>>,
       cancelledAt |-> -1,
       detached |-> FALSE ]

\* the value of the last onProgressUpdate call
LastProgress(log) ==
  LET p == SelectSeq(log, LAMBDA e : e.e = "progress") IN p[Len(p)].v

FillIds == 1..Len(fills)
Running(f) == fills[f].pc = "yield"

(* ------------------------------------------------------------------ *)
(* Session: initial state                                              *)
(* ------------------------------------------------------------------ *)
NoPixels ==
  /\ pxWorking = <<>>
  /\ pxOriginal = <<>>
  /\ pxBefore = <<>>
  /\ pxOp = Null

\* annotation-context initialState, after setupCanvas has run for the page
Init ==
  /\ tool = AREA_MAGIC_BRUSH
  /\ brushSize = DEFAULT_BRUSH_SIZE
  /\ brushMask = GenerateBrushMask(DEFAULT_BRUSH_SIZE)
  /\ isErasing = FALSE
  /\ isDrawing = FALSE
  /\ areaStart = Null
  /\ areaEnd = Null
  /\ isProcessingArea = FALSE
  /\ processingProgress = 0
  /\ originalImageData = PageImage
  /\ tempImageData = NullImage
  /\ annotatedAreas = <<>>
  /\ lastPosition = Null
  /\ isEndingDrag = FALSE
  /\ canvas = PageImage
  /\ image = PageImage
  /\ InitDocument
  /\ fills = <<>>
  /\ nEvents = 0
  /\ NoPixels

(* ------------------------------------------------------------------ *)
(* AnnotationCanvas                                                    *)
(* ------------------------------------------------------------------ *)
\* the overlay rendered over the canvas while isProcessingArea takes the
\* pointer events: the canvas handlers run only without it
CanvasReceivesPointer == ~isProcessingArea

\* the mounted canvas has its 2d context: setupCanvas has run since the mount
ContextReady == image # NullImage

\* strokeRect and fillRect of the selection effect; a rectangle whose width
\* and height are both zero draws nothing
DrawSelectionRect(buf, aS, aE) ==
  IF aS = aE THEN buf ELSE Paint(buf, RectMark(aS, aE))

\* the selection effect, run to its fixed point after areaStart, areaEnd or
\* tempImageData changed: <<canvas, tempImageData>> after it
SelectionEffect(cnv, temp, aS, aE) ==
  IF aS = Null \/ aE = Null THEN <<cnv, temp>>
  ELSE IF temp = NullImage THEN <<DrawSelectionRect(cnv, aS, aE), cnv>>
  ELSE <<DrawSelectionRect(temp, aS, aE), temp>>

(* ------------------------------------------------------------------ *)
(* useDrawingHandlers                                                  *)
(* ------------------------------------------------------------------ *)
\* applyEraser on the canvas: the pixels under the mask go back to the original
ApplyEraserMark(cnv, p) == Paint(cnv, EraserMark(p))

\* throttledApplyEraser, at the leading edge of its throttle window
ThrottledApplyEraser(p) ==
  /\ canvas' = ApplyEraserMark(canvas, p)
  /\ annotatedAreas' =
       AddAnnotatedArea(annotatedAreas, Area(ERASER, p[1], p[2], -1, -1, brushSize \div 2))

StartDrawing(p) ==
  /\ CanvasReceivesPointer
  /\ ContextReady
  /\ Event
  /\ lastPosition' = p
  /\ isDrawing' = TRUE
  /\ isEndingDrag' = FALSE
  /\ IF isErasing THEN
       /\ Len(annotatedAreas) < MaxAnnotations
       /\ ThrottledApplyEraser(p)
       /\ UNCHANGED <<tempImageData, areaStart, areaEnd>>
     ELSE IF tool = AREA_MAGIC_BRUSH THEN
       /\ tempImageData' = canvas
       /\ areaStart' = p
       /\ areaEnd' = p
       /\ canvas' = SelectionEffect(canvas, canvas, p, p)[1]
       /\ UNCHANGED annotatedAreas
     ELSE
       UNCHANGED <<canvas, annotatedAreas, tempImageData, areaStart, areaEnd>>
  /\ UNCHANGED <<tool, brushSize, brushMask, isErasing, isProcessingArea, processingProgress,
                 originalImageData, image, docVars, fills, pxVars>>

Draw(p) ==
  /\ CanvasReceivesPointer
  /\ ContextReady
  /\ isDrawing
  /\ Event
  /\ IF isErasing THEN
       /\ Len(annotatedAreas) < MaxAnnotations
       /\ ThrottledApplyEraser(p)
       /\ UNCHANGED <<tempImageData, areaEnd, lastPosition>>
     ELSE IF tool = PEN /\ lastPosition # Null THEN
       /\ canvas' = Paint(canvas, PenMark(p))
       /\ lastPosition' = p
       /\ UNCHANGED <<annotatedAreas, tempImageData, areaEnd>>
     ELSE IF tool = AREA_MAGIC_BRUSH /\ tempImageData # NullImage THEN
       /\ areaEnd' = p
       /\ canvas' = SelectionEffect(canvas, tempImageData, areaStart, p)[1]
       /\ tempImageData' = SelectionEffect(canvas, tempImageData, areaStart, p)[2]
       /\ UNCHANGED <<annotatedAreas, lastPosition>>
     ELSE
       UNCHANGED <<canvas, annotatedAreas, tempImageData, areaEnd, lastPosition>>
  /\ UNCHANGED <<tool, brushSize, brushMask, isErasing, isDrawing, areaStart, isProcessingArea,
                 processingProgress, originalImageData, isEndingDrag, image,
                 docVars, fills, pxVars>>

\* a reset that forgets the corners and keeps the snapshot
ResetAreaSelectionKeepSnapshot ==
  /\ areaStart' = Null
  /\ areaEnd' = Null
  /\ UNCHANGED tempImageData

\* reducer, RESET_AREA_SELECTION
ResetAreaSelection ==
  /\ areaStart' = Null
  /\ areaEnd' = Null
  /\ tempImageData' = NullImage

\* throttledApplyToArea, at the leading edge of its throttle window.  Its catch
\* block runs only when the awaited call rejects.
ThrottledApplyToArea(throws) ==
  IF areaStart = Null \/ areaEnd = Null THEN
    UNCHANGED <<areaStart, areaEnd, tempImageData, isProcessingArea,
                processingProgress, canvas, fills>>
  ELSE IF \/ Abs(areaEnd[1] - areaStart[1]) < MIN_AREA_SIZE
          \/ Abs(areaEnd[2] - areaStart[2]) < MIN_AREA_SIZE THEN
    /\ ResetAreaSelection
    /\ UNCHANGED <<isProcessingArea, processingProgress, canvas, fills>>
  ELSE
    LET f == Len(fills) + 1
        fill == NewFill(f, areaStart, areaEnd, tempImageData, canvas, brushSize, throws)
    IN /\ processingProgress' = LastProgress(fill.log)
       /\ canvas' = IF throws THEN Restored(tempImageData, canvas)
                              ELSE fill.currentImageData
       /\ fills' = Append(fills, fill)
       /\ IF fill.promise = "rejected"
            THEN isProcessingArea' = FALSE /\ ResetAreaSelection
            ELSE isProcessingArea' = TRUE
                 /\ UNCHANGED <<areaStart, areaEnd, tempImageData>>

\* stopDrawing, and the effect that starts the fill once the drag has ended
StopDrawing(throws) ==
  /\ CanvasReceivesPointer
  /\ isDrawing
  /\ Event
  /\ isDrawing' = FALSE
  /\ lastPosition' = Null
  /\ IF ~ContextReady THEN
       \* no context yet: the pen records nothing, throttledApplyToArea returns
       /\ isEndingDrag' =
            (tool = AREA_MAGIC_BRUSH /\ (areaStart = Null \/ areaEnd = Null))
       /\ UNCHANGED <<annotatedAreas, areaStart, areaEnd, tempImageData,
                      isProcessingArea, processingProgress, canvas, fills>>
     ELSE IF tool = PEN THEN
       /\ Len(annotatedAreas) < MaxAnnotations
       /\ annotatedAreas' =
            IF lastPosition # Null
              THEN AddAnnotatedArea(annotatedAreas,
                     Area(PEN, lastPosition[1], lastPosition[2], -1, -1, -1))
              ELSE annotatedAreas
       /\ UNCHANGED <<isEndingDrag, areaStart, areaEnd, tempImageData,
                      isProcessingArea, processingProgress, canvas, fills>>
     ELSE IF tool = AREA_MAGIC_BRUSH THEN
       /\ UNCHANGED annotatedAreas
       /\ IF areaStart # Null /\ areaEnd # Null
            THEN /\ isEndingDrag' = FALSE
                 /\ ThrottledApplyToArea(throws)
            ELSE /\ isEndingDrag' = TRUE
                 /\ UNCHANGED <<areaStart, areaEnd, tempImageData, isProcessingArea,
                                processingProgress, canvas, fills>>
     ELSE
       UNCHANGED <<annotatedAreas, isEndingDrag, areaStart, areaEnd, tempImageData,
                   isProcessingArea, processingProgress, canvas, fills>>
  /\ UNCHANGED <<tool, brushSize, brushMask, isErasing, originalImageData, image,
                 docVars, pxVars>>

\* cancelDrawing; a fill that is suspended when it runs records the chunk it
\* would process next (cancelledAt is history, the code keeps no such flag)
CancelDrawing ==
  /\ Event
  /\ canvas' = Restored(tempImageData, canvas)
  /\ lastPosition' = Null
  /\ isEndingDrag' = FALSE
  /\ isDrawing' = FALSE
  /\ isProcessingArea' = FALSE
  /\ ResetAreaSelection
  /\ fills' = [f \in FillIds |->
                 IF Running(f) /\ fills[f].cancelledAt = -1
                   THEN [fills[f] EXCEPT !.cancelledAt = fills[f].currentChunk]
                   ELSE fills[f]]
  /\ UNCHANGED <<tool, brushSize, brushMask, isErasing, processingProgress, originalImageData,
                 annotatedAreas, image, docVars, pxVars>>

(* ------------------------------------------------------------------ *)
(* applyMagicBrushToArea: the steps after a suspension                 *)
(* ------------------------------------------------------------------ *)
\* a loop test that leaves the loop one chunk early
MoreChunksShort(f) == fills[f].currentChunk + 1 < fills[f].totalChunks

\* the loop test of processChunksSequentially
MoreChunks(f) == fills[f].currentChunk < fills[f].totalChunks

\* processNextChunk, resumed by the timer
ProcessNextChunk(f) ==
  /\ Running(f)
  /\ MoreChunks(f)
  /\ LET k == fills[f].currentChunk
         cur == ApplyChunk(f, k, fills[f].currentImageData)
         progress == ChunkProgress(k + 1, fills[f].totalChunks)
     IN /\ canvas' = (IF fills[f].detached THEN canvas ELSE cur)
        /\ processingProgress' = progress
        /\ fills' = [fills EXCEPT ![f].currentImageData = cur,
                                  ![f].currentChunk = k + 1,
                                  ![f].processed =
                                    Append(@, ChunkRange(k, fills[f].numPoints)),
                                  ![f].log = @ \o <<Ev("chunk", k),
                                                    Ev("progress", progress),
                                                    Ev("yield", k)>>]
  /\ UNCHANGED <<tool, brushSize, brushMask, isErasing, isDrawing, areaStart, areaEnd,
                 isProcessingArea, originalImageData, tempImageData, annotatedAreas,
                 refVars, image, docVars, nEvents, pxVars>>

\* a chunk throws: the catch block of applyMagicBrushToArea runs; the catch
\* block of throttledApplyToArea runs when the call rejects
ChunkThrows(f) ==
  /\ Running(f)
  /\ MoreChunks(f)
  /\ processingProgress' = 0
  /\ fills' = [fills EXCEPT ![f].pc = "failed",
                            ![f].promise = Settled,
                            ![f].currentImageData = NullImage,
                            ![f].snapshot = NullImage,
                            ![f].log = Append(@, Ev("progress", 0))]
  /\ IF Settled = "rejected"
       THEN isProcessingArea' = FALSE /\ ResetAreaSelection
       ELSE UNCHANGED <<isProcessingArea, areaStart, areaEnd, tempImageData>>
  /\ UNCHANGED <<tool, brushSize, brushMask, isErasing, isDrawing, originalImageData,
                 annotatedAreas, refVars, canvas, image, docVars, nEvents,
                 pxVars>>

\* after the loop: smoothing, the last putImageData, onComplete (which is
\* throttledApplyToArea's callback)
FinishFill(f) ==
  /\ Running(f)
  /\ ~MoreChunks(f)
  /\ LET cur == ApplyFinalSmoothing(f, fills[f].currentImageData)
         rec == CompletionRecord(fills[f].x1, fills[f].y1, fills[f].x2, fills[f].y2)
     IN /\ canvas' = (IF fills[f].detached THEN canvas ELSE cur)
        /\ annotatedAreas' = AddAnnotatedArea(annotatedAreas, rec)
        /\ fills' = [fills EXCEPT ![f].currentImageData = NullImage,
                                  ![f].snapshot = NullImage,
                                  ![f].pc = "done",
                                  ![f].promise = "resolved",
                                  ![f].log = @ \o <<Ev("smooth", 0), Ev("complete", 0)>>,
                                  ![f].completions = Append(@, rec)]
  /\ ResetAreaSelection
  /\ isProcessingArea' = FALSE
  /\ processingProgress' = 0
  /\ UNCHANGED <<tool, brushSize, brushMask, isErasing, isDrawing, originalImageData,
                 refVars, image, docVars, nEvents, pxVars>>

(* ------------------------------------------------------------------ *)
(* Toolbar                                                             *)
(* ------------------------------------------------------------------ *)
HandleToolChange(newTool) ==
  /\ Event
  /\ tool' = newTool
  /\ isErasing' = FALSE
  /\ ResetAreaSelection
  /\ UNCHANGED <<brushSize, brushMask, isDrawing, isProcessingArea, processingProgress,
                 originalImageData, annotatedAreas, refVars, canvas, image,
                 docVars, fills, pxVars>>

\* a toggle that leaves the tool as it is
HandleEraseToggleKeepTool ==
  /\ Event
  /\ isErasing' = ~isErasing
  /\ ResetAreaSelection
  /\ UNCHANGED <<tool, brushSize, brushMask, isDrawing, isProcessingArea,
                 processingProgress, originalImageData, annotatedAreas, refVars,
                 canvas, image, docVars, fills, pxVars>>

HandleEraseToggle ==
  /\ Event
  /\ isErasing' = ~isErasing
  /\ tool' = IF ~isErasing THEN ERASER ELSE tool
  /\ ResetAreaSelection
  /\ UNCHANGED <<brushSize, brushMask, isDrawing, isProcessingArea, processingProgress,
                 originalImageData, annotatedAreas, refVars, canvas, image,
                 docVars, fills, pxVars>>

\* a provider that keeps the mask of the first render
SetBrushSizeKeepMask(size) ==
  /\ Event
  /\ size # brushSize
  /\ brushSize' = size
  /\ UNCHANGED <<brushMask, tool, isErasing, isDrawing, areaStart, areaEnd,
                 isProcessingArea, processingProgress, originalImageData,
                 tempImageData, annotatedAreas, refVars, canvas, image, docVars,
                 fills, pxVars>>

\* the slider's onChange: SET_BRUSH_SIZE, and the mask memoised on brushSize
SetBrushSize(size) ==
  /\ Event
  /\ size # brushSize
  /\ brushSize' = size
  /\ brushMask' = GenerateBrushMask(size)
  /\ UNCHANGED <<tool, isErasing, isDrawing, areaStart, areaEnd, isProcessingArea,
                 processingProgress, originalImageData, tempImageData, annotatedAreas,
                 refVars, canvas, image, docVars, fills, pxVars>>

\* ToolbarSection.handleSave and handleSaveAnnotation: the canvas as a PNG
\* data URL, with the annotation list, becomes the page's saved entry
HandleSave ==
  /\ Event
  /\ annotatedImages' =
       [annotatedImages EXCEPT ![currentPageIndex] =
          [imageData |-> canvas, annotatedAreas |-> annotatedAreas]]
  /\ UNCHANGED <<annVars, refVars, canvas, image, currentPageIndex, pageLeft,
                 stepVars, fills, pxVars>>

(* ------------------------------------------------------------------ *)
(* useCanvasInitialization                                             *)
(* ------------------------------------------------------------------ *)
\* the url the canvas is initialised from: the saved entry when there is one
ImageUrl ==
  IF annotatedImages[currentPageIndex].imageData # NullImage
    THEN annotatedImages[currentPageIndex].imageData
    ELSE ImageUrls(currentPageIndex)

\* a setup that reads the original before the image is drawn
SetupCanvasFromCanvas(img) ==
  /\ canvas' = img
  /\ originalImageData' = canvas
  /\ ResetAreaSelection
  /\ annotatedAreas' = <<>>
  /\ UNCHANGED <<tool, brushSize, brushMask, isErasing, isDrawing, isProcessingArea,
                 processingProgress, refVars, docVars, fills, pxVars>>

\* setupCanvas on the loaded image img
SetupCanvas(img) ==
  /\ canvas' = img
  /\ originalImageData' = img
  /\ ResetAreaSelection
  /\ annotatedAreas' = <<>>
  /\ UNCHANGED <<tool, brushSize, brushMask, isErasing, isDrawing, isProcessingArea,
                 processingProgress, refVars, docVars, fills, pxVars>>

\* image.onload after the url changed
ImageLoaded ==
  /\ Event
  /\ image # ImageUrl
  /\ image' = ImageUrl
  /\ SetupCanvas(ImageUrl)

\* the debounced window resize handler
HandleResize ==
  /\ Event
  /\ image = ImageUrl
  /\ UNCHANGED image
  /\ SetupCanvas(image)

(* ------------------------------------------------------------------ *)
(* Page navigation                                                     *)
(* ------------------------------------------------------------------ *)
\* handlePageNavigation from the Previous / Next buttons.  AnnotationCanvas is
\* keyed by the page index, so it is mounted anew: a new canvas element without
\* context, a new image being loaded, new refs.  The AnnotationProvider and its
\* state stay.  A fill that is still running keeps the context of the canvas
\* that was unmounted.
HandlePageNavigation(newIndex) ==
  /\ Event
  /\ newIndex \in {currentPageIndex - 1, currentPageIndex + 1}
  /\ newIndex >= 0 /\ newIndex < NumPages
  /\ currentPageIndex' = newIndex
  /\ pageLeft' = [pageLeft EXCEPT ![currentPageIndex] =
                    [canvas |-> canvas, annotatedAreas |-> annotatedAreas,
                     idle |-> ~isDrawing /\ ~isProcessingArea /\ areaStart = Null]]
  /\ canvas' = NullImage
  /\ image' = NullImage
  /\ lastPosition' = Null
  /\ isEndingDrag' = FALSE
  /\ fills' = [f \in FillIds |-> [fills[f] EXCEPT !.detached = TRUE]]
  /\ UNCHANGED <<annVars, annotatedImages, stepVars, pxVars>>

Next ==
  \/ \E p \in Points : StartDrawing(p)
  \/ \E p \in Points : Draw(p)
  \/ \E throws \in BOOLEAN : StopDrawing(throws)
  \/ CancelDrawing
  \/ \E f \in FillIds : ProcessNextChunk(f)
  \/ \E f \in FillIds : ChunkThrows(f)
  \/ \E f \in FillIds : FinishFill(f)
  \/ \E t \in {AREA_MAGIC_BRUSH, PEN} : HandleToolChange(t)
  \/ HandleEraseToggle
  \/ \E s \in BrushSizes : SetBrushSize(s)
  \/ HandleSave
  \/ ImageLoaded
  \/ HandleResize

Spec == Init /\ [][Next]_vars

(* ------------------------------------------------------------------ *)
(* SpecDoc: editing, saving and moving between the pages                *)
(* ------------------------------------------------------------------ *)
DocPoints == {<<0, 0>>, <<MaxXY, MaxXY>>}

NextDoc ==
  \/ \E p \in DocPoints : StartDrawing(p)
  \/ \E p \in DocPoints : Draw(p)
  \/ StopDrawing(FALSE)
  \/ \E f \in FillIds : ProcessNextChunk(f)
  \/ \E f \in FillIds : FinishFill(f)
  \/ HandleToolChange(PEN)
  \/ HandleEraseToggle
  \/ HandleSave
  \/ ImageLoaded
  \/ \E newIndex \in -1 .. NumPages : HandlePageNavigation(newIndex)

SpecDoc == Init /\ [][NextDoc]_vars

(* ------------------------------------------------------------------ *)
(* SpecExport: the steps of the document, page requests and handleExport *)
(* ------------------------------------------------------------------ *)
\* page.tsx renders the AnnotationProvider, the canvas, the page buttons and
\* the Export button only in this step
Annotating == currentStep = "annotate"

\* the indices a caller of handlePageNavigation may pass
NavRequests == -1 .. NumPages

\* pagesToExport of handleExport
PagesToExport ==
  [p \in Pages |-> IF annotatedImages[p].imageData # NullImage
                     THEN annotatedImages[p].imageData
                     ELSE ImageUrls(p)]

\* m || fallback of a message string
OrMessage(m, fallback) == IF m = "" THEN fallback ELSE m
Messages == {"", "message"}

\* a new AnnotationProvider with a new AnnotationCanvas: initialState, new
\* refs, a canvas element without content and an image being loaded
MountAnnotation ==
  /\ tool' = AREA_MAGIC_BRUSH
  /\ brushSize' = DEFAULT_BRUSH_SIZE
  /\ brushMask' = GenerateBrushMask(DEFAULT_BRUSH_SIZE)
  /\ isErasing' = FALSE
  /\ isDrawing' = FALSE
  /\ areaStart' = Null
  /\ areaEnd' = Null
  /\ isProcessingArea' = FALSE
  /\ processingProgress' = 0
  /\ originalImageData' = NullImage
  /\ tempImageData' = NullImage
  /\ annotatedAreas' = <<>>
  /\ lastPosition' = Null
  /\ isEndingDrag' = FALSE
  /\ canvas' = NullImage
  /\ image' = NullImage

\* a navigation that dispatches whatever index it is given
HandlePageNavigationUnchecked(newIndex) ==
  /\ Event
  /\ currentPageIndex' = newIndex
  /\ canvas' = NullImage
  /\ image' = NullImage
  /\ lastPosition' = Null
  /\ isEndingDrag' = FALSE
  /\ UNCHANGED <<annVars, annotatedImages, pageLeft, stepVars, fills, pxVars>>

\* handlePageNavigation(newIndex) with any argument: the reducer is reached
\* only for an index of a page; the canvas is mounted anew when the key changes
HandlePageNavigationCall(newIndex) ==
  /\ Event
  /\ IF newIndex >= 0 /\ newIndex < NumPages /\ newIndex # currentPageIndex
       THEN /\ currentPageIndex' = newIndex
            /\ pageLeft' = [pageLeft EXCEPT ![currentPageIndex] =
                              [canvas |-> canvas, annotatedAreas |-> annotatedAreas,
                               idle |-> ~isDrawing /\ ~isProcessingArea
                                          /\ areaStart = Null]]
            /\ canvas' = NullImage
            /\ image' = NullImage
            /\ lastPosition' = Null
            /\ isEndingDrag' = FALSE
            /\ fills' = [f \in FillIds |-> [fills[f] EXCEPT !.detached = TRUE]]
            /\ UNCHANGED <<annVars, annotatedImages, stepVars, pxVars>>
       ELSE UNCHANGED <<annVars, refVars, canvas, image, docVars, fills, pxVars>>

\* handleExport up to its first await
HandleExport ==
  /\ Event
  /\ error' = Null
  /\ docProgress' = 0
  /\ currentStep' = "export"
  /\ exportJob' = [pc |-> "fetch", outcome |-> "none", images |-> PagesToExport]
  /\ fills' = [f \in FillIds |-> [fills[f] EXCEPT !.detached = TRUE]]
  /\ UNCHANGED <<annVars, refVars, canvas, image, annotatedImages,
                 currentPageIndex, pageLeft, pxVars>>

\* the catch block without the timer that returns to the annotation
ExportCatchStays(m) ==
  /\ error' = <<OrMessage(m, "Failed to export annotated PDF")>>
  /\ exportJob' = [exportJob EXCEPT !.pc = "idle", !.outcome = "failed"]
  /\ UNCHANGED <<currentStep, docProgress>>

\* the catch block of handleExport
ExportCatch(m) ==
  /\ error' = <<OrMessage(m, "Failed to export annotated PDF")>>
  /\ exportJob' = [exportJob EXCEPT !.pc = "timer", !.outcome = "failed"]
  /\ UNCHANGED <<currentStep, docProgress>>

\* await fetch settles: a response that is ok, one that is not, or a rejection
FetchSettles(r) ==
  /\ exportJob.pc = "fetch"
  /\ CASE r = "ok" -> /\ exportJob' = [exportJob EXCEPT !.pc = "blob"]
                      /\ UNCHANGED <<currentStep, error, docProgress>>
       [] r = "notOk" -> /\ exportJob' = [exportJob EXCEPT !.pc = "json"]
                         /\ UNCHANGED <<currentStep, error, docProgress>>
       [] OTHER -> \E m \in Messages : ExportCatch(m)
  /\ UNCHANGED <<annVars, refVars, canvas, image, annotatedImages,
                 currentPageIndex, pageLeft, fills, nEvents, pxVars>>

\* await response.json() of a response that is not ok: the error thrown from
\* its data, or the rejection
JsonSettles(resolved) ==
  /\ exportJob.pc = "json"
  /\ \E m \in Messages :
       ExportCatch(IF resolved THEN OrMessage(m, "Failed to process PDF") ELSE m)
  /\ UNCHANGED <<annVars, refVars, canvas, image, annotatedImages,
                 currentPageIndex, pageLeft, fills, nEvents, pxVars>>

\* await response.blob(): the download and the timer, or the rejection
BlobSettles(resolved) ==
  /\ exportJob.pc = "blob"
  /\ IF resolved
       THEN /\ docProgress' = 100
            /\ exportJob' = [exportJob EXCEPT !.pc = "timer", !.outcome = "ok"]
            /\ UNCHANGED <<currentStep, error>>
       ELSE \E m \in Messages : ExportCatch(m)
  /\ UNCHANGED <<annVars, refVars, canvas, image, annotatedImages,
                 currentPageIndex, pageLeft, fills, nEvents, pxVars>>

\* the timer of handleExport, 2000 ms after either end
ExportTimer ==
  /\ exportJob.pc = "timer"
  /\ currentStep' = "annotate"
  /\ exportJob' = [exportJob EXCEPT !.pc = "idle"]
  /\ MountAnnotation
  /\ UNCHANGED <<error, docProgress, annotatedImages, currentPageIndex, pageLeft,
                 fills, nEvents, pxVars>>

NextExport ==
  \/ Annotating /\ HandleExport
  \/ \E r \in {"ok", "notOk", "rejected"} : FetchSettles(r)
  \/ \E resolved \in BOOLEAN : JsonSettles(resolved)
  \/ \E resolved \in BOOLEAN : BlobSettles(resolved)
  \/ ExportTimer
  \/ Annotating /\ \E newIndex \in NavRequests : HandlePageNavigationCall(newIndex)
  \/ Annotating /\ HandleSave
  \/ Annotating /\ ImageLoaded
  \/ Annotating /\ \E t \in TOOLS : HandleToolChange(t)
  \/ Annotating /\ HandleEraseToggle

SpecExport == Init /\ [][NextExport]_vars

\* the request is answered or fails, each body read settles, the timer fires
FairExport ==
  /\ WF_vars(\E r \in {"ok", "notOk", "rejected"} : FetchSettles(r))
  /\ WF_vars(\E resolved \in BOOLEAN : JsonSettles(resolved))
  /\ WF_vars(\E resolved \in BOOLEAN : BlobSettles(resolved))
  /\ WF_vars(ExportTimer)

SpecExportLive == SpecExport /\ FairExport

(* ------------------------------------------------------------------ *)
(* SpecMask: the brush mask for every brush size                        *)
(* ------------------------------------------------------------------ *)
\* the slider's sizes and the smaller ones the reducer accepts as well
MaskBrushSizes == (1 .. MaxBrushSize) \cup {SLIDER_MAX}

NextMask == \E size \in MaskBrushSizes : SetBrushSize(size)

SpecMask == Init /\ [][NextMask]_vars

(* ------------------------------------------------------------------ *)
(* SpecFill: one area fill, from its first suspension to its end        *)
(* ------------------------------------------------------------------ *)
\* the session after a drag from aS to aE with brush size bs has been released:
\* startDrawing took the snapshot, the selection effect drew the rectangle and
\* throttledApplyToArea started the fill
InitFill ==
  \E aS \in FillPoints, aE \in FillPoints, bs \in FillBrushSizes, throws \in BOOLEAN :
    LET fill == NewFill(1, aS, aE, PageImage,
                        DrawSelectionRect(PageImage, aS, aE), bs, throws)
    IN /\ Abs(aE[1] - aS[1]) >= MIN_AREA_SIZE
       /\ Abs(aE[2] - aS[2]) >= MIN_AREA_SIZE
       /\ tool = AREA_MAGIC_BRUSH
       /\ brushSize = bs
       /\ brushMask = GenerateBrushMask(bs)
       /\ isErasing = FALSE
       /\ isDrawing = FALSE
       /\ areaStart = aS
       /\ areaEnd = aE
       /\ isProcessingArea = TRUE
       /\ processingProgress = LastProgress(fill.log)
       /\ originalImageData = PageImage
       /\ tempImageData = PageImage
       /\ annotatedAreas = <<>>
       /\ lastPosition = Null
       /\ isEndingDrag = FALSE
       /\ canvas = IF throws THEN PageImage ELSE fill.currentImageData
       /\ image = PageImage
       /\ InitDocument
       /\ fills = <<fill>>
       /\ nEvents = IF bs = DEFAULT_BRUSH_SIZE THEN 3 ELSE 4
       /\ NoPixels

NextFill ==
  \/ \E f \in FillIds : ProcessNextChunk(f)
  \/ \E f \in FillIds : ChunkThrows(f)
  \/ \E f \in FillIds : FinishFill(f)

SpecFill == InitFill /\ [][NextFill]_vars

\* the timer of processChunksSequentially fires and the continuation after the
\* loop runs; whether a chunk throws is up to the data
FairFill ==
  /\ WF_vars(ProcessNextChunk(1))
  /\ WF_vars(FinishFill(1))

SpecFillLive == SpecFill /\ FairFill

(* ------------------------------------------------------------------ *)
(* SpecPixel: applyEraser on RGBA arrays                                *)
(* ------------------------------------------------------------------ *)
\* Math.round(n2 / 2)
RoundHalf(n2) == (n2 + 1) \div 2

\* index of getPixelData
PixelIndex(x, y, width) == (y * width + x) * 4

\* an eraser that leaves the blue channel of the pixel as it is
ErasePixelNoBlue(data, orig, pixelIndex) ==
  [data EXCEPT ![pixelIndex] = orig[pixelIndex],
               ![pixelIndex + 1] = orig[pixelIndex + 1]]

\* an eraser that moves the pixel half way to the original
ErasePixelBlend(data, orig, pixelIndex) ==
  [data EXCEPT ![pixelIndex] = (@ + orig[pixelIndex]) \div 2,
               ![pixelIndex + 1] = (@ + orig[pixelIndex + 1]) \div 2,
               ![pixelIndex + 2] = (@ + orig[pixelIndex + 2]) \div 2]

\* the three assignments of applyEraser for one pixel
ErasePixel(data, orig, pixelIndex) ==
  [data EXCEPT ![pixelIndex] = orig[pixelIndex],
               ![pixelIndex + 1] = orig[pixelIndex + 1],
               ![pixelIndex + 2] = orig[pixelIndex + 2]]

\* applyEraser at (x2 / 2, y2 / 2): the two loops over the mask, in the order
\* of maskIndex, on a copy of the canvas; the result is what putImageData writes
ApplyEraser(x2, y2, data, orig, mask, size, width, height) ==
  LET radius == size \div 2
      diameter == 2 * radius + 1
      RECURSIVE Loop(_, _)
      Loop(d, maskIndex) ==
        IF maskIndex >= diameter * diameter THEN d
        ELSE LET i == (maskIndex \div diameter) - radius
                 j == (maskIndex % diameter) - radius
                 pixelX == RoundHalf(x2 + 2 * j)
                 pixelY == RoundHalf(y2 + 2 * i)
                 hit == /\ mask[maskIndex] = 1
                        /\ pixelX >= 0 /\ pixelX < width
                        /\ pixelY >= 0 /\ pixelY < height
             IN Loop(IF hit THEN ErasePixel(d, orig, PixelIndex(pixelX, pixelY, width))
                            ELSE d,
                     maskIndex + 1)
  IN Loop(data, 0)

\* channel c of the page at pixel (px, py)
PxColour(seed, px, py, c) == (seed + 50 * px + 9 * py + 80 * c) % 256

\* ImageData.data of a PxW x PxH canvas: the page itself ("clean"), the page
\* painted over everywhere ("painted") or on every other pixel ("mixed")
PxImage(kind, seed) ==
  [k \in 0 .. (4 * PxW * PxH - 1) |->
     LET p == k \div 4
         c == k % 4
         px == p % PxW
         py == p \div PxW
         painted == kind = "painted" \/ (kind = "mixed" /\ (px + py) % 2 = 0)
     IN IF c = 3 THEN OPAQUE
        ELSE IF painted THEN (PxColour(seed, px, py, c) + 101) % 256
        ELSE PxColour(seed, px, py, c)]

\* the eraser is selected on a page whose canvas holds earlier edits
InitPixel ==
  \E seed \in PxSeeds, kind \in PxKinds, bs \in PxBrushSizes :
    /\ tool = ERASER
    /\ brushSize = bs
    /\ brushMask = GenerateBrushMask(bs)
    /\ isErasing = TRUE
    /\ isDrawing = FALSE
    /\ areaStart = Null
    /\ areaEnd = Null
    /\ isProcessingArea = FALSE
    /\ processingProgress = 0
    /\ originalImageData = PageImage
    /\ tempImageData = NullImage
    /\ annotatedAreas = <<>>
    /\ lastPosition = Null
    /\ isEndingDrag = FALSE
    /\ canvas = PageImage
    /\ image = PageImage
    /\ InitDocument
    /\ fills = <<>>
    /\ nEvents = 0
    /\ pxOriginal = PxImage("clean", seed)
    /\ pxWorking = PxImage(kind, seed)
    /\ pxBefore = <<>>
    /\ pxOp = Null

\* throttledApplyEraser at pointer position (x2 / 2, y2 / 2)
EraseAt(x2, y2) ==
  /\ pxBefore = <<>>
  /\ pxWorking' = ApplyEraser(x2, y2, pxWorking, pxOriginal,
                              brushMask, brushSize, PxW, PxH)
  /\ pxBefore' = <<pxWorking>>
  /\ pxOp' = [x |-> x2, y |-> y2, brushSize |-> brushSize]
  /\ UNCHANGED <<annVars, refVars, canvas, image, docVars, fills, nEvents,
                 pxOriginal>>

\* the next pointer event arrives at the same position
EraseAgain ==
  /\ Len(pxBefore) = 1
  /\ pxWorking' = ApplyEraser(pxOp.x, pxOp.y, pxWorking, pxOriginal,
                              brushMask, brushSize, PxW, PxH)
  /\ pxBefore' = Append(pxBefore, pxWorking)
  /\ UNCHANGED <<annVars, refVars, canvas, image, docVars, fills, nEvents,
                 pxOriginal, pxOp>>

NextPixel ==
  \/ \E x2 \in PxHalfX, y2 \in PxHalfY : EraseAt(x2, y2)
  \/ EraseAgain

SpecPixel == InitPixel /\ [][NextPixel]_vars

(* ------------------------------------------------------------------ *)
(* SpecBrush: applyMagicBrush on RGBA arrays                            *)
(* ------------------------------------------------------------------ *)
\* what reading past the end of a typed array gives, and the NaN that
\* arithmetic on it gives
Undefined == -1
NaN == -1

\* data[i] of a Uint8ClampedArray
ReadData(data, i) == IF i \in DOMAIN data THEN data[i] ELSE Undefined

\* centerPixelIndex: computed from the rounded point without a bounds test
CenterPixelIndex(x2, y2, width) == (RoundHalf(y2) * width + RoundHalf(x2)) * 4

\* centerColor
CenterColor(orig, centerPixelIndex) ==
  [r |-> ReadData(orig, centerPixelIndex),
   g |-> ReadData(orig, centerPixelIndex + 1),
   b |-> ReadData(orig, centerPixelIndex + 2)]

\* Math.round(brushSize * 2)
SearchRadius(size) == 2 * size

\* The pixels sample k can fall on.  Math.random draws the angle and the
\* distance; the distance lies between 0.2 and 1.0 searchRadius and rounding
\* moves the sample by at most 0.5 along each axis.  The direction is left
\* free here, so this set contains every pixel the code can produce.
\* Distances are measured in half pixels.
InSampleReach(x2, y2, size, sx, sy) ==
  LET dx == 2 * sx - x2
      dy == 2 * sy - y2
      inner == Max(0, (2 * SearchRadius(size)) \div 5 - 2)
      outer == 2 * SearchRadius(size) + 2
  IN /\ dx * dx + dy * dy >= inner * inner
     /\ dx * dx + dy * dy <= outer * outer

\* The samples of one call, for the random draws of pattern t: sample k lands
\* on the pixel of index (t * (k + 1) + 3 * k) % (width * height + 1) when that
\* is a pixel within reach, and outside the canvas (off = TRUE) otherwise.
Samples(t, x2, y2, size, width, height) ==
  [k \in 1 .. NUM_SEARCH_SAMPLES |->
     LET q == (t * k + 3 * (k - 1)) % (width * height + 1)
         sx == q % width
         sy == q \div width
     IN IF q < width * height /\ InSampleReach(x2, y2, size, sx, sy)
          THEN [off |-> FALSE, x |-> sx, y |-> sy]
          ELSE [off |-> TRUE, x |-> -1, y |-> -1]]

\* colorSimilarity of the sample at sampleIndex
ColorSimilarity(orig, sampleIndex, centerColor) ==
  IF centerColor.r = Undefined THEN NaN
  ELSE Abs(orig[sampleIndex] - centerColor.r)
       + Abs(orig[sampleIndex + 1] - centerColor.g)
       + Abs(orig[sampleIndex + 2] - centerColor.b)

\* Array.from(colorMap.values()): the entries of the samples that were not
\* skipped, in the order of k
RECURSIVE ColorMapValues(_, _, _, _, _, _, _)
ColorMapValues(samples, k, data, orig, centerColor, width, height) ==
  IF k > Len(samples) THEN <<>>
  ELSE LET smp == samples[k]
           rest == ColorMapValues(samples, k + 1, data, orig, centerColor,
                                  width, height)
           sampleIndex == (smp.y * width + smp.x) * 4
       IN IF \/ smp.off
             \/ smp.x < 0 \/ smp.x >= width \/ smp.y < 0 \/ smp.y >= height
            THEN rest
            ELSE <<[k |-> k - 1,
                    r |-> data[sampleIndex],
                    g |-> data[sampleIndex + 1],
                    b |-> data[sampleIndex + 2],
                    similarity |->
                      ColorSimilarity(orig, sampleIndex, centerColor)]>> \o rest

\* entry e put into the sorted list after every entry that is not greater
RECURSIVE InsertSorted(_, _)
InsertSorted(sorted, e) ==
  IF sorted = <<>> THEN <<e>>
  ELSE IF sorted[Len(sorted)].similarity <= e.similarity
    THEN Append(sorted, e)
    ELSE Append(InsertSorted(SubSeq(sorted, 1, Len(sorted) - 1), e),
                sorted[Len(sorted)])

\* .sort((a, b) => a.similarity - b.similarity): a stable sort; when every
\* similarity is NaN the comparator gives NaN for each pair and the order stays
RECURSIVE SortBySimilarity(_)
SortBySimilarity(list) ==
  IF list = <<>> THEN <<>>
  ELSE InsertSorted(SortBySimilarity(SubSeq(list, 1, Len(list) - 1)),
                    list[Len(list)])

\* the first entries of the map, taken without sorting
SortedColorsUnsorted(values) == SubSeq(values, 1, Min(TOP_COLORS, Len(values)))

\* sortedColors: .sort(...).slice(0, 10)
SortedColors(values) ==
  SubSeq(SortBySimilarity(values), 1, Min(TOP_COLORS, Len(values)))

\* weight = 1 / (similarity + 1), times WEIGHT_SCALE so that it is whole for
\* every similarity up to 9
Weight(similarity) == WEIGHT_SCALE \div (similarity + 1)

\* totalWeight (ch = "w") and weightedR, weightedG, weightedB (ch = "r", "g",
\* "b") of the loop over sortedColors, from entry n on
RECURSIVE SumOver(_, _, _)
SumOver(sortedColors, n, ch) ==
  IF n > Len(sortedColors) THEN 0
  ELSE (IF ch = "w" THEN 1 ELSE sortedColors[n][ch])
         * Weight(sortedColors[n].similarity)
       + SumOver(sortedColors, n + 1, ch)

\* a blend that is not divided by totalWeight
BlendedColorUnnormalised(sortedColors) ==
  IF sortedColors = <<>> \/ sortedColors[1].similarity = NaN
    THEN [written |-> FALSE, r |-> 0, g |-> 0, b |-> 0]
    ELSE [written |-> TRUE,
          r |-> Min(255, RoundDiv(SumOver(sortedColors, 1, "r"), WEIGHT_SCALE)),
          g |-> Min(255, RoundDiv(SumOver(sortedColors, 1, "g"), WEIGHT_SCALE)),
          b |-> Min(255, RoundDiv(SumOver(sortedColors, 1, "b"), WEIGHT_SCALE))]

\* the colour written under the mask; written is FALSE when totalWeight > 0
\* fails: no samples, or a NaN total
BlendedColor(sortedColors) ==
  IF sortedColors = <<>> \/ sortedColors[1].similarity = NaN
    THEN [written |-> FALSE, r |-> 0, g |-> 0, b |-> 0]
    ELSE LET totalWeight == SumOver(sortedColors, 1, "w")
         IN [written |-> TRUE,
             r |-> RoundDiv(SumOver(sortedColors, 1, "r"), totalWeight),
             g |-> RoundDiv(SumOver(sortedColors, 1, "g"), totalWeight),
             b |-> RoundDiv(SumOver(sortedColors, 1, "b"), totalWeight)]

\* a write that also clears the pixel's alpha
WriteBlendClearAlpha(data, pixelIndex, colour) ==
  [data EXCEPT ![pixelIndex] = colour.r,
               ![pixelIndex + 1] = colour.g,
               ![pixelIndex + 2] = colour.b,
               ![pixelIndex + 3] = 0]

\* data[pixelIndex .. pixelIndex + 2] = the blended colour
WriteBlend(data, pixelIndex, colour) ==
  [data EXCEPT ![pixelIndex] = colour.r,
               ![pixelIndex + 1] = colour.g,
               ![pixelIndex + 2] = colour.b]

\* applyMagicBrush at (x2 / 2, y2 / 2) with the samples given: the buffer
\* currentImgData.data after the call
ApplyMagicBrush(x2, y2, data, orig, mask, size, width, height, samples) ==
  LET radius == size \div 2
      diameter == 2 * radius + 1
      centerColor == CenterColor(orig, CenterPixelIndex(x2, y2, width))
      sortedColors ==
        SortedColors(ColorMapValues(samples, 1, data, orig, centerColor,
                                    width, height))
      colour == BlendedColor(sortedColors)
      RECURSIVE Loop(_, _)
      Loop(d, maskIndex) ==
        IF maskIndex >= diameter * diameter THEN d
        ELSE LET i == (maskIndex \div diameter) - radius
                 j == (maskIndex % diameter) - radius
                 pixelX == RoundHalf(x2 + 2 * j)
                 pixelY == RoundHalf(y2 + 2 * i)
                 hit == /\ mask[maskIndex] # 0
                        /\ pixelX >= 0 /\ pixelX < width
                        /\ pixelY >= 0 /\ pixelY < height
                        /\ colour.written
             IN Loop(IF hit THEN WriteBlend(d, PixelIndex(pixelX, pixelY, width), colour)
                            ELSE d,
                     maskIndex + 1)
  IN Loop(data, 0)

\* channel c of the page of SpecBrush at pixel (px, py): neighbouring colours,
\* so that every similarity is at most 9
BrushColour(seed, px, py, c) == 100 + ((seed + px + 2 * py + c) % 4)

\* ImageData.data of the page and of the canvas of SpecBrush, which holds the
\* page ("clean") or earlier paint on every ("painted") or every other
\* ("mixed") pixel
BrushImage(kind, seed) ==
  [k \in 0 .. (4 * PxW * PxH - 1) |->
     LET p == k \div 4
         c == k % 4
         px == p % PxW
         py == p \div PxW
         painted == kind = "painted" \/ (kind = "mixed" /\ (px + py) % 2 = 0)
     IN IF c = 3 THEN OPAQUE
        ELSE IF painted THEN PxColour(seed, px, py, c)
        ELSE BrushColour(seed, px, py, c)]

\* points inside the canvas, in half pixels: 0 <= x < width, 0 <= y < height
BrushHalfX == 0 .. (2 * PxW - 1)
BrushHalfY == 0 .. (2 * PxH - 1)
PxPatterns == 0 .. 3

\* an area fill is about to hand a grid point to applyMagicBrush
InitBrush ==
  \E seed \in PxSeeds, kind \in PxKinds, bs \in PxBrushSizes :
    /\ tool = AREA_MAGIC_BRUSH
    /\ brushSize = bs
    /\ brushMask = GenerateBrushMask(bs)
    /\ isErasing = FALSE
    /\ isDrawing = FALSE
    /\ areaStart = Null
    /\ areaEnd = Null
    /\ isProcessingArea = TRUE
    /\ processingProgress = 0
    /\ originalImageData = PageImage
    /\ tempImageData = NullImage
    /\ annotatedAreas = <<>>
    /\ lastPosition = Null
    /\ isEndingDrag = FALSE
    /\ canvas = PageImage
    /\ image = PageImage
    /\ InitDocument
    /\ fills = <<>>
    /\ nEvents = 0
    /\ pxOriginal = BrushImage("clean", seed)
    /\ pxWorking = BrushImage(kind, seed)
    /\ pxBefore = <<>>
    /\ pxOp = Null

\* one applyMagicBrush call of processNextChunk, at the point (x2 / 2, y2 / 2),
\* with the mask applyMagicBrushToArea generated and the random draws of
\* pattern t
BrushAt(x2, y2, t) ==
  /\ pxBefore = <<>>
  /\ LET samples == Samples(t, x2, y2, brushSize, PxW, PxH)
         centerPixelIndex == CenterPixelIndex(x2, y2, PxW)
         centerColor == CenterColor(pxOriginal, centerPixelIndex)
         values == ColorMapValues(samples, 1, pxWorking, pxOriginal, centerColor,
                                  PxW, PxH)
     IN /\ pxWorking' = ApplyMagicBrush(x2, y2, pxWorking, pxOriginal,
                                        GenerateBrushMask(brushSize), brushSize,
                                        PxW, PxH, samples)
        /\ pxOp' = [x |-> x2, y |-> y2, brushSize |-> brushSize,
                    centerPixelIndex |-> centerPixelIndex,
                    centerColor |-> centerColor,
                    samples |-> samples,
                    colorMap |-> values,
                    sortedColors |-> SortedColors(values)]
  /\ pxBefore' = <<pxWorking>>
  /\ UNCHANGED <<annVars, refVars, canvas, image, docVars, fills, nEvents,
                 pxOriginal>>

NextBrush ==
  \E x2 \in BrushHalfX, y2 \in BrushHalfY, t \in PxPatterns : BrushAt(x2, y2, t)

SpecBrush == InitBrush /\ [][NextBrush]_vars

(* ------------------------------------------------------------------ *)
(* SpecSmooth: applyFinalSmoothing on RGBA arrays                       *)
(* ------------------------------------------------------------------ *)
\* 1000 * exp(-spatialDist / (2 * radius * radius)) for radius 2, to the
\* nearest whole number
SpatialWeight(spatialDist) ==
  CASE spatialDist = 0 -> 1000
    [] spatialDist = 1 -> 882
    [] spatialDist = 2 -> 779
    [] spatialDist = 4 -> 607
    [] spatialDist = 5 -> 535
    [] spatialDist = 8 -> 368

\* 1000 * exp(-colorDist / (2 * COLOR_SIGMA^2)), approximated by
\* 1000 / (1 + t + t^2 / 2) with t = colorDist / (2 * COLOR_SIGMA^2)
ColorWeight(colorDist) ==
  LET scale == 2 * COLOR_SIGMA * COLOR_SIGMA
      half == (colorDist \div 300) * (colorDist \div 300)
  IN (1000 * scale) \div (scale + colorDist + half)

\* pixelIndex = (y * width + x) * 4 for the loop values x = x2 / 2 and
\* y = y2 / 2: a whole number also when x or y ends in .5, and then not the
\* index of the first entry of pixel (floor(x), floor(y))
EntryIndex(x2, y2, width) == 2 * (y2 * width + x2)

\* the (dx, dy) the neighbour loop does not skip: 0 <= nx < width and
\* 0 <= ny < height
Neighbours(x2, y2, width, height) ==
  LET radius == SMOOTHING_KERNEL_SIZE \div 2
  IN {n \in (-radius .. radius) \X (-radius .. radius) :
        /\ x2 + 2 * n[1] >= 0 /\ x2 + 2 * n[1] < 2 * width
        /\ y2 + 2 * n[2] >= 0 /\ y2 + 2 * n[2] < 2 * height}

\* totalWeight > 0: false when an entry read lies past the end of the array
\* (undefined makes colorDist, the weight and totalWeight NaN)
TotalWeightPositive(data, x2, y2, width, height) ==
  \A n \in Neighbours(x2, y2, width, height) :
    EntryIndex(x2 + 2 * n[1], y2 + 2 * n[2], width) + 2 \in DOMAIN data

\* what the bilateral filter computes at the loop values (x, y): the three
\* values Math.round(sum / totalWeight) for the entries pixelIndex,
\* pixelIndex + 1 and pixelIndex + 2
SmoothedColour(data, x2, y2, width, height) ==
  LET radius == SMOOTHING_KERNEL_SIZE \div 2
      at == EntryIndex(x2, y2, width)
      \* the i-th pass of the neighbour loops, dy outermost
      Dx(i) == (i % SMOOTHING_KERNEL_SIZE) - radius
      Dy(i) == (i \div SMOOTHING_KERNEL_SIZE) - radius
      Skipped(i) ==
        \/ x2 + 2 * Dx(i) < 0 \/ x2 + 2 * Dx(i) >= 2 * width
        \/ y2 + 2 * Dy(i) < 0 \/ y2 + 2 * Dy(i) >= 2 * height
      NIdx(i) == EntryIndex(x2 + 2 * Dx(i), y2 + 2 * Dy(i), width)
      Wt(i) ==
        LET dr == data[NIdx(i)] - data[at]
            dg == data[NIdx(i) + 1] - data[at + 1]
            db == data[NIdx(i) + 2] - data[at + 2]
        IN (SpatialWeight(Dx(i) * Dx(i) + Dy(i) * Dy(i))
              * ColorWeight(dr * dr + dg * dg + db * db)) \div 1000
      \* <<sumR, sumG, sumB, totalWeight>> after the passes from i on
      RECURSIVE Sums(_)
      Sums(i) ==
        IF i = SMOOTHING_KERNEL_SIZE * SMOOTHING_KERNEL_SIZE THEN <<0, 0, 0, 0>>
        ELSE LET rest == Sums(i + 1)
             IN IF Skipped(i) THEN rest
                ELSE LET weight == Wt(i)
                     IN <<rest[1] + data[NIdx(i)] * weight,
                          rest[2] + data[NIdx(i) + 1] * weight,
                          rest[3] + data[NIdx(i) + 2] * weight,
                          rest[4] + weight>>
      sums == Sums(0)
  IN <<RoundDiv(sums[1], sums[4]), RoundDiv(sums[2], sums[4]),
       RoundDiv(sums[3], sums[4])>>

\* the value computed for entry pixelIndex + c
SmoothedValue(data, x2, y2, c, width, height) ==
  SmoothedColour(data, x2, y2, width, height)[c + 1]

\* The values of v in
\*   for (v = Math.max(lo, a - padding); v <= Math.min(hi, b + padding); v++)
\* in half pixels, as a and b are: the loop keeps the fraction of its start.
LoopPixels(lo, hi, a2, b2) ==
  LET start2 == Max(2 * lo, a2 - 2 * SMOOTHING_PADDING)
      end2 == Min(2 * hi, b2 + 2 * SMOOTHING_PADDING)
  IN {v \in start2 .. end2 : (v - start2) % 2 = 0}

\* the filter loop: from max(radius, a - padding) to min(size - radius - 1, b + padding)
ComputeRange(lo, hi, a2, b2, radius) == LoopPixels(lo + radius, hi - radius, a2, b2)

\* the iterations (x, y, c) of a pair of loops over xs and ys whose entry
\* pixelIndex + c is k; there is at most one
CellsAt(k, xs, ys, width) ==
  UNION {IF (k - c) % 2 = 0
           THEN {<<((k - c) \div 2) - y * width, y, c>> :
                    y \in {v \in ys : ((k - c) \div 2) - v * width \in xs}}
           ELSE {} : c \in 0 .. 2}

\* The filter loops of applyFinalSmoothing: for each pair (x, y) of loop
\* values the three values written to tempData, or <<>> when totalWeight > 0
\* fails.  The filter reads data and writes tempData only.
FilterPass(x1, y1, x2, y2, data, width, height) ==
  LET radius == SMOOTHING_KERNEL_SIZE \div 2
      xs == ComputeRange(0, width - 1, x1, x2, radius)
      ys == ComputeRange(0, height - 1, y1, y2, radius)
  IN [t \in xs \X ys |->
        IF TotalWeightPositive(data, t[1], t[2], width, height)
          THEN SmoothedColour(data, t[1], t[2], width, height)
          ELSE <<>>]

\* tempData after the filter loops: a copy of data with the values written
TempData(filtered, x1, y1, x2, y2, data, width, height) ==
  LET radius == SMOOTHING_KERNEL_SIZE \div 2
      xs == ComputeRange(0, width - 1, x1, x2, radius)
      ys == ComputeRange(0, height - 1, y1, y2, radius)
  IN [k \in DOMAIN data |->
        LET cells == CellsAt(k, xs, ys, width)
        IN IF cells = {} THEN data[k]
           ELSE LET t == CHOOSE u \in cells : TRUE
                    colour == filtered[<<t[1], t[2]>>]
                IN IF colour # <<>> THEN colour[t[3] + 1] ELSE data[k]]

\* data after the copy-back loops, which run from max(0, a - padding) to
\* min(size - 1, b + padding) and copy the entries pixelIndex,
\* pixelIndex + 1 and pixelIndex + 2
CopyBack(tempData, x1, y1, x2, y2, data, width, height) ==
  LET copyXs == LoopPixels(0, width - 1, x1, x2)
      copyYs == LoopPixels(0, height - 1, y1, y2)
  IN [k \in DOMAIN data |->
        IF CellsAt(k, copyXs, copyYs, width) # {} THEN tempData[k] ELSE data[k]]

\* applyFinalSmoothing(x1, y1, x2, y2, imageData): imageData.data after the
\* call
ApplyFinalSmoothingData(x1, y1, x2, y2, data, width, height) ==
  CopyBack(TempData(FilterPass(x1, y1, x2, y2, data, width, height),
                    x1, y1, x2, y2, data, width, height),
           x1, y1, x2, y2, data, width, height)

\* the first column of the right-hand colour of a "split" image
SplitColumn(seed) == 6 + (seed % 3)

\* the two solid colours of a "split" image
SplitColour(seed, left, c) == IF left THEN 40 + 10 * c ELSE 200 - 10 * c + seed

\* ImageData.data of the SmW x SmH canvas a fill has painted on ("clean",
\* "painted", "mixed" as in SpecBrush), or an image of two solid colours
\* that meet at a vertical line ("split")
SmoothImage(kind, seed) ==
  [k \in 0 .. (4 * SmW * SmH - 1) |->
     LET p == k \div 4
         c == k % 4
         px == p % SmW
         py == p \div SmW
         painted == kind = "painted" \/ (kind = "mixed" /\ (px + py) % 2 = 0)
     IN IF c = 3 THEN OPAQUE
        ELSE IF kind = "split" THEN SplitColour(seed, px < SplitColumn(seed), c)
        ELSE IF painted THEN PxColour(seed, px, py, c)
        ELSE BrushColour(seed, px, py, c)]

SmoothKinds == PxKinds \cup {"split"}

\* corners of selections of at least MIN_AREA_SIZE pixels each way, in half
\* pixels: at the border and half a pixel from it, and 12.5 and 13 pixels
\* below the top
SmoothX1 == {0, 1}
SmoothY1 == {0, 1, 2 * SMOOTHING_PADDING + 5, 2 * SMOOTHING_PADDING + 6}
SmoothSpans == {2 * MIN_AREA_SIZE, 2 * MIN_AREA_SIZE + 1}

\* the chunks of a fill over the rectangle from (x1, y1) to (x2, y2) are done
InitSmooth ==
  \E seed \in PxSeeds, kind \in SmoothKinds, x1 \in SmoothX1, y1 \in SmoothY1,
     span \in SmoothSpans :
    /\ x1 + span < 2 * SmW
    /\ y1 + span < 2 * SmH
    /\ tool = AREA_MAGIC_BRUSH
    /\ brushSize = DEFAULT_BRUSH_SIZE
    /\ brushMask = GenerateBrushMask(DEFAULT_BRUSH_SIZE)
    /\ isErasing = FALSE
    /\ isDrawing = FALSE
    /\ areaStart = Null
    /\ areaEnd = Null
    /\ isProcessingArea = TRUE
    /\ processingProgress = 100
    /\ originalImageData = PageImage
    /\ tempImageData = NullImage
    /\ annotatedAreas = <<>>
    /\ lastPosition = Null
    /\ isEndingDrag = FALSE
    /\ canvas = PageImage
    /\ image = PageImage
    /\ InitDocument
    /\ fills = <<>>
    /\ nEvents = 0
    /\ pxOriginal = SmoothImage(IF kind = "split" THEN kind ELSE "clean", seed)
    /\ pxWorking = SmoothImage(kind, seed)
    /\ pxBefore = <<>>
    /\ pxOp = [x1 |-> x1, y1 |-> y1, x2 |-> x1 + span, y2 |-> y1 + span,
               smoothed |-> FALSE, filtered |-> <<>>]

\* the applyFinalSmoothing call that follows the last chunk
SmoothRect ==
  /\ ~pxOp.smoothed
  /\ pxOp' = [pxOp EXCEPT !.smoothed = TRUE,
                          !.filtered = FilterPass(pxOp.x1, pxOp.y1, pxOp.x2,
                                                  pxOp.y2, pxWorking, SmW, SmH)]
  \* (the comparison makes TLC compute the filtered values once, not at each
  \* use of them)
  /\ pxOp'.filtered = pxOp'.filtered
  /\ pxWorking' = CopyBack(TempData(pxOp'.filtered, pxOp.x1, pxOp.y1, pxOp.x2,
                                    pxOp.y2, pxWorking, SmW, SmH),
                           pxOp.x1, pxOp.y1, pxOp.x2, pxOp.y2, pxWorking,
                           SmW, SmH)
  /\ pxBefore' = <<pxWorking>>
  /\ UNCHANGED <<annVars, refVars, canvas, image, docVars, fills, nEvents,
                 pxOriginal>>

NextSmooth == SmoothRect

SpecSmooth == InitSmooth /\ [][NextSmooth]_vars

(* ------------------------------------------------------------------ *)
(* Properties                                                          *)
(* ------------------------------------------------------------------ *)
\* a fill that has started and has not completed, failed or been cancelled
InProgress(f) == Running(f) /\ fills[f].cancelledAt = -1

\* the step is one of fill f's own steps
OwnStep(f) ==
  \/ fills'[f].currentChunk # fills[f].currentChunk
  \/ fills'[f].pc # fills[f].pc

\* the values fill f has passed to onProgressUpdate, in order
ProgressValues(f) ==
  LET p == SelectSeq(fills[f].log, LAMBDA e : e.e = "progress")
  IN [n \in 1 .. Len(p) |-> p[n].v]

\* the positions in fill f's log of the events named e
Positions(f, e) == {n \in 1 .. Len(fills[f].log) : fills[f].log[n].e = e}

\* C1: once cancelDrawing has run before chunk k of a running fill, the canvas
\* never holds chunk k or a later chunk of that fill, nor its smoothing pass,
\* and onComplete is not invoked for the fill.
CancelledFillStops ==
  \A f \in FillIds :
    LET c == fills[f].cancelledAt
    IN c # -1 =>
         /\ \A k \in c .. fills[f].totalChunks : ChunkMark(f, k) \notin canvas.marks
         /\ SmoothMark(f) \notin canvas.marks
         /\ fills[f].completions = <<>>

\* C2: while a fill is in progress no drag starts on the canvas, no pointer
\* move changes the canvas, no other fill starts, and no other fill writes the
\* canvas.
BufferExclusivity ==
  [][\A f \in FillIds :
       InProgress(f) =>
         /\ ~(\E p \in Points : StartDrawing(p))
         /\ ~(\E p \in Points : Draw(p) /\ canvas' # canvas)
         /\ Len(fills') = Len(fills)
         /\ \A g \in FillIds \ {f} : OwnStep(g) => canvas' = canvas]_vars

\* C3: cancelDrawing during a running fill puts the snapshot (tempImageData)
\* back on the canvas, and no later step of a cancelled fill changes the
\* canvas.
CancelRestoresSnapshot ==
  [][/\ (CancelDrawing /\ tempImageData # NullImage /\ \E f \in FillIds : Running(f))
          => canvas' = tempImageData
     /\ \A f \in FillIds :
          (fills[f].cancelledAt # -1 /\ OwnStep(f)) => canvas' = canvas]_vars

\* C4: a fill whose chunk threw has stopped (no smoothing, no onComplete), its
\* last report is progress 0, and its promise is rejected, so that the catch
\* block of the caller runs.
MidFillException ==
  \A f \in FillIds :
    fills[f].pc = "failed" =>
      /\ fills[f].promise = "rejected"
      /\ fills[f].log[Len(fills[f].log)] = Ev("progress", 0)
      /\ Positions(f, "smooth") = {}
      /\ Positions(f, "complete") = {}
      /\ fills[f].completions = <<>>

\* the drag that ends in this step selected a rectangle narrower or lower than
\* MIN_AREA_SIZE
DegenerateRequest ==
  /\ \E throws \in BOOLEAN : StopDrawing(throws)
  /\ tool = AREA_MAGIC_BRUSH
  /\ areaStart # Null /\ areaEnd # Null
  /\ tempImageData # NullImage
  /\ \/ Abs(areaEnd[1] - areaStart[1]) < MIN_AREA_SIZE
     \/ Abs(areaEnd[2] - areaStart[2]) < MIN_AREA_SIZE

\* C5: a fill requested on a degenerate rectangle leaves the canvas as it was
\* before the selection began, starts no fill and reports no progress.
DegenerateSelection ==
  [][DegenerateRequest =>
       /\ canvas' = tempImageData
       /\ fills' = fills
       /\ processingProgress' = processingProgress
       /\ annotatedAreas' = annotatedAreas]_vars

\* C6: the progress values of a fill that has not failed never decrease, and
\* the last value of a completed fill is 100, whatever totalChunks >= 1 is.
ProgressMonotone ==
  \A f \in FillIds :
    LET v == ProgressValues(f)
    IN /\ fills[f].totalChunks >= 1
       /\ fills[f].pc # "failed" =>
            \A m, n \in 1 .. Len(v) : m <= n => v[m] <= v[n]
       /\ fills[f].pc = "done" => v[Len(v)] = 100

\* a completed fill of more than two chunks, one report per chunk
ProgressWitness ==
  \E f \in FillIds :
    /\ fills[f].pc = "done"
    /\ fills[f].totalChunks > 2
    /\ Len(ProgressValues(f)) = fills[f].totalChunks + 1
    /\ \E n \in 1 .. Len(ProgressValues(f)) : ProgressValues(f)[n] % 10 # 0

\* C7: in a completed fill every chunk precedes the smoothing pass, smoothing
\* runs once, onComplete runs once and last, with the record of the normalised
\* rectangle; a fill that has not completed has not smoothed or completed.
CompletionOrdering ==
  \A f \in FillIds :
    LET fill == fills[f]
        chunks == Positions(f, "chunk")
        smooth == Positions(f, "smooth")
        complete == Positions(f, "complete")
    IN IF fill.pc = "done"
         THEN /\ Cardinality(chunks) = fill.totalChunks
              /\ Cardinality(smooth) = 1
              /\ complete = {Len(fill.log)}
              /\ \A c \in chunks, s \in smooth : c < s
              /\ \A s \in smooth : s = Len(fill.log) - 1
              /\ Len(fill.completions) = 1
              /\ fill.completions[1].type = "area-magic-brush"
              /\ fill.completions[1].x = Min(fill.areaStart[1], fill.areaEnd[1])
              /\ fill.completions[1].y = Min(fill.areaStart[2], fill.areaEnd[2])
              /\ fill.completions[1].x2 = Max(fill.areaStart[1], fill.areaEnd[1])
              /\ fill.completions[1].y2 = Max(fill.areaStart[2], fill.areaEnd[2])
              /\ fill.completions[1].x <= fill.completions[1].x2
              /\ fill.completions[1].y <= fill.completions[1].y2
         ELSE /\ smooth = {}
              /\ complete = {}
              /\ fill.completions = <<>>

\* a completed fill of several chunks whose drag ran right to left and top down
CompletionWitness ==
  \E f \in FillIds :
    /\ fills[f].pc = "done"
    /\ fills[f].totalChunks > 1
    /\ fills[f].areaStart[1] > fills[f].areaEnd[1]
    /\ fills[f].areaStart[2] < fills[f].areaEnd[2]

\* C8: the canvas always has the width and height of the original buffer, and
\* the original buffer changes only in a step that loads an image, draws it on
\* the canvas and captures it: no tool step changes or replaces it.
OriginalImmutable ==
  /\ [](canvas.w = originalImageData.w /\ canvas.h = originalImageData.h)
  /\ [][originalImageData' # originalImageData =>
          /\ image' # image
          /\ originalImageData' = image'
          /\ canvas' = image']_vars

\* the canvas holds an eraser dab and a completed, smoothed fill, a selection
\* was cancelled, and the original is still the page
OriginalWitness ==
  /\ \E f \in FillIds : fills[f].pc = "done" /\ SmoothMark(f) \in canvas.marks
  /\ \E m \in canvas.marks : m.t = "eraser"
  /\ originalImageData = PageImage
  /\ canvas # originalImageData

\* the mask cell (i, j) of the last eraser application lies on pixel (px, py)
UnderMask(px, py) ==
  LET radius == pxOp.brushSize \div 2
      diameter == 2 * radius + 1
      mask == GenerateBrushMask(pxOp.brushSize)
  IN \E i \in -radius .. radius, j \in -radius .. radius :
       /\ mask[(i + radius) * diameter + (j + radius)] = 1
       /\ px = RoundHalf(pxOp.x + 2 * j)
       /\ py = RoundHalf(pxOp.y + 2 * i)

\* C9: after applyEraser every pixel of the canvas under a mask cell of value
\* 1 has the R, G and B of the original, and every alpha is what it was.
EraserExactness ==
  pxOp # Null =>
    \A px \in 0 .. (PxW - 1), py \in 0 .. (PxH - 1) :
      LET index == PixelIndex(px, py, PxW)
      IN /\ UnderMask(px, py) =>
              \A c \in 0 .. 2 : pxWorking[index + c] = pxOriginal[index + c]
         /\ pxWorking[index + 3] = pxBefore[Len(pxBefore)][index + 3]

\* one application at a half-pixel position left of the canvas changed pixels
\* and left others as they were
ExactnessWitness ==
  /\ pxOp # Null
  /\ Len(pxBefore) = 1
  /\ pxOp.x = -1
  /\ pxWorking # pxBefore[1]
  /\ \E k \in DOMAIN pxWorking : pxWorking[k] # pxOriginal[k]

\* C10: the second application of the eraser at the same point with the same
\* brush size leaves the canvas as the first application left it, and the
\* region under the mask equals the original's.
EraserIdempotence ==
  Len(pxBefore) = 2 =>
    /\ pxWorking = pxBefore[2]
    /\ \A px \in 0 .. (PxW - 1), py \in 0 .. (PxH - 1) :
         UnderMask(px, py) =>
           \A c \in 0 .. 2 :
             /\ pxWorking[PixelIndex(px, py, PxW) + c]
                  = pxOriginal[PixelIndex(px, py, PxW) + c]
             /\ pxBefore[2][PixelIndex(px, py, PxW) + c]
                  = pxOriginal[PixelIndex(px, py, PxW) + c]

\* the eraser was applied twice and its first application changed the canvas
IdempotenceWitness ==
  /\ Len(pxBefore) = 2
  /\ pxBefore[1] # pxBefore[2]

\* the pixel (px, py) changed in the last eraser application
PixelChanged(px, py) ==
  \E c \in 0 .. 3 :
    pxWorking[PixelIndex(px, py, PxW) + c]
      # pxBefore[Len(pxBefore)][PixelIndex(px, py, PxW) + c]

\* C11 (as stated): applyEraser at (x, y) leaves every pixel farther than
\* floor(s/2) from the point (x, y) itself unchanged.  Distances are compared
\* in half pixels: (2 px - x2)^2 + (2 py - y2)^2 > (2 radius)^2.
EraserLocalityAtPointer ==
  pxOp # Null =>
    \A px \in 0 .. (PxW - 1), py \in 0 .. (PxH - 1) :
      LET radius == pxOp.brushSize \div 2
          dx == 2 * px - pxOp.x
          dy == 2 * py - pxOp.y
      IN dx * dx + dy * dy > 4 * radius * radius => ~PixelChanged(px, py)

\* C11 (amended): applyEraser at (x, y) leaves every pixel outside the disc of
\* radius floor(s/2) around the pixel (round(x), round(y)) unchanged, whatever
\* was painted there before; only pixels inside that disc are restored.
EraserLocality ==
  pxOp # Null =>
    \A px \in 0 .. (PxW - 1), py \in 0 .. (PxH - 1) :
      LET radius == pxOp.brushSize \div 2
          dx == px - RoundHalf(pxOp.x)
          dy == py - RoundHalf(pxOp.y)
      IN dx * dx + dy * dy > radius * radius => ~PixelChanged(px, py)

\* the eraser restored pixels of a painted canvas and left painted pixels
\* outside its disc, at a pointer position between two pixel columns
LocalityWitness ==
  /\ pxOp # Null
  /\ Len(pxBefore) = 1
  /\ pxOp.x % 2 = 1
  /\ \E px \in 0 .. (PxW - 1), py \in 0 .. (PxH - 1) : PixelChanged(px, py)
  /\ \E px \in 0 .. (PxW - 1), py \in 0 .. (PxH - 1) :
       /\ ~PixelChanged(px, py)
       /\ pxWorking[PixelIndex(px, py, PxW)] # pxOriginal[PixelIndex(px, py, PxW)]

\* list a is an initial part of list b
IsPrefix(a, b) == Len(a) <= Len(b) /\ SubSeq(b, 1, Len(a)) = a

\* C13: while the same page image stays loaded, every step leaves the previous
\* annotatedAreas list as a prefix of the new one.
AnnotationsAppendOnly ==
  [][image' = image => IsPrefix(annotatedAreas, annotatedAreas')]_vars

\* Math.ceil(num / den) for num >= 0, den > 0
CeilDiv(num, den) == (num + den - 1) \div den

\* C15 (as stated): a W x H selection yields ceil(W/g + 1) * ceil(H/g + 1)
\* points, g = max(floor(brushSize/3), 5), and ceil(points/100) chunks.
PointCountCeil ==
  \A f \in FillIds :
    LET fill == fills[f]
        g == Max(fill.brushSize \div 3, 5)
        W == fill.x2 - fill.x1
        H == fill.y2 - fill.y1
    IN /\ fill.numPoints = CeilDiv(W + g, g) * CeilDiv(H + g, g)
       /\ fill.totalChunks = CeilDiv(fill.numPoints, 100)

\* C15 (amended): a W x H selection yields (floor(W/g) + 1) * (floor(H/g) + 1)
\* points, g = max(floor(brushSize/3), 5), and ceil(points/100) chunks.
PointCount ==
  \A f \in FillIds :
    LET fill == fills[f]
        g == Max(fill.brushSize \div 3, 5)
        W == fill.x2 - fill.x1
        H == fill.y2 - fill.y1
    IN /\ fill.numPoints = ((W \div g) + 1) * ((H \div g) + 1)
       /\ fill.totalChunks = CeilDiv(fill.numPoints, 100)

\* a fill over a rectangle whose sides are not multiples of the grid distance,
\* with more than one chunk, has run to its end
PointCountWitness ==
  \E f \in FillIds :
    LET fill == fills[f]
        g == Max(fill.brushSize \div 3, 5)
    IN /\ (fill.x2 - fill.x1) % g # 0
       /\ (fill.y2 - fill.y1) % g # 0
       /\ fill.totalChunks > 1
       /\ fill.pc = "done"

\* C16: the chunks of a fill take the points in array (grid) order, chunk k
\* the indices from where chunk k-1 ended, at most 100 and at least one of
\* them, and a completed fill has taken every point once, the last one being
\* the last grid intersection of the rectangle; every chunk is followed by its
\* progress report and then by one yield, and a later chunk starts right
\* after the yield of the chunk before it.
ChunkedExecution ==
  \A f \in FillIds :
    LET fill == fills[f]
        done == fill.processed
        g == Max(fill.brushSize \div 3, 5)
    IN /\ Len(done) = fill.currentChunk
       /\ \A k \in 1 .. Len(done) :
            /\ done[k].startIdx = (IF k = 1 THEN 0 ELSE done[k - 1].endIdx)
            /\ done[k].endIdx - done[k].startIdx \in 1 .. 100
            /\ done[k].endIdx <= fill.numPoints
       /\ fill.pc = "done" =>
            /\ Len(done) >= 1
            /\ done[Len(done)].endIdx = fill.numPoints
            /\ LET last == PointAt(fill.x1, fill.y1, fill.x2, g, fill.numPoints - 1)
               IN /\ last.x <= fill.x2 /\ last.x + g > fill.x2
                  /\ last.y <= fill.y2 /\ last.y + g > fill.y2
       /\ \A n \in Positions(f, "chunk") :
            /\ n + 2 <= Len(fill.log)
            /\ fill.log[n + 1].e = "progress"
            /\ fill.log[n + 2] = Ev("yield", fill.log[n].v)
            /\ fill.log[n].v > 0 => fill.log[n - 1] = Ev("yield", fill.log[n].v - 1)
       /\ Cardinality(Positions(f, "yield")) = Cardinality(Positions(f, "chunk"))
       /\ Cardinality(Positions(f, "chunk")) = fill.currentChunk

\* a completed fill of at least three chunks whose last chunk is a short one
ChunkedWitness ==
  \E f \in FillIds :
    /\ fills[f].pc = "done"
    /\ Len(fills[f].processed) >= 3
    /\ fills[f].numPoints % 100 # 0

\* C14: when a page that was left with its image loaded, no drag and no fill
\* under way, is shown again and its image has loaded, the canvas and the
\* annotatedAreas list are those the page had when it was left.
PagePersistence ==
  [][(/\ ~ContextReady
      /\ ContextReady'
      /\ pageLeft[currentPageIndex] # Null
      /\ pageLeft[currentPageIndex].canvas # NullImage
      /\ pageLeft[currentPageIndex].idle)
     => /\ canvas' = pageLeft[currentPageIndex].canvas
        /\ annotatedAreas' = pageLeft[currentPageIndex].annotatedAreas]_vars

\* C12: the mask has (2 * floor(brushSize/2) + 1)^2 cells, each 0 or 1, cell
\* (i, j) being 1 exactly when i^2 + j^2 <= radius^2; the centre cell is 1 and
\* the mask is its own image under the half turn (i, j) -> (-i, -j).
MaskShape ==
  LET radius == brushSize \div 2
      diameter == 2 * radius + 1
      cells == diameter * diameter
  IN /\ DOMAIN brushMask = 0 .. (cells - 1)
     /\ \A i \in -radius .. radius, j \in -radius .. radius :
          brushMask[(i + radius) * diameter + (j + radius)]
            = (IF i * i + j * j <= radius * radius THEN 1 ELSE 0)
     /\ brushMask[radius * diameter + radius] = 1
     /\ \A index \in 0 .. (cells - 1) :
          brushMask[index] = brushMask[cells - 1 - index]

\* the slider was moved to an even and to an odd size whose masks have cells
\* outside the disc, and to size 1, whose mask is the single centre cell
MaskWitness ==
  /\ nEvents >= 3
  /\ brushSize = 1
  /\ brushMask = [index \in {0} |-> 1]

\* C17: the reference colour of an applyMagicBrush call at a point inside the
\* canvas is the original's pixel at (round(x), round(y)), and that pixel
\* lies inside the buffer.
ReferencePixel ==
  pxOp # Null =>
    LET rx == RoundHalf(pxOp.x)
        ry == RoundHalf(pxOp.y)
    IN /\ rx >= 0 /\ rx < PxW
       /\ ry >= 0 /\ ry < PxH
       /\ pxOp.centerColor = [r |-> pxOriginal[(ry * PxW + rx) * 4],
                              g |-> pxOriginal[(ry * PxW + rx) * 4 + 1],
                              b |-> pxOriginal[(ry * PxW + rx) * 4 + 2]]

\* C18: in a call whose reference colour is defined, the recorded entries are
\* those of the samples inside the canvas, in the order of k, each with the
\* colour of the working buffer at the sample and the similarity
\* |dR| + |dG| + |dB| between the original at the sample and the reference
\* colour; the blended entries are min(10, recorded) of the recorded ones, no
\* entry twice, and no entry left out is more similar than a blended one.
SampleSelection ==
  (pxOp # Null /\ pxOp.centerColor.r # Undefined) =>
    LET before == pxBefore[1]
        inside == {k \in 1 .. NUM_SEARCH_SAMPLES :
                     /\ ~pxOp.samples[k].off
                     /\ pxOp.samples[k].x \in 0 .. (PxW - 1)
                     /\ pxOp.samples[k].y \in 0 .. (PxH - 1)}
        map == pxOp.colorMap
        sorted == pxOp.sortedColors
    IN /\ Len(map) = Cardinality(inside)
       /\ {map[n].k + 1 : n \in 1 .. Len(map)} = inside
       /\ \A n \in 1 .. Len(map) :
            LET smp == pxOp.samples[map[n].k + 1]
                at == (smp.y * PxW + smp.x) * 4
            IN /\ n > 1 => map[n - 1].k < map[n].k
               /\ map[n].r = before[at]
               /\ map[n].g = before[at + 1]
               /\ map[n].b = before[at + 2]
               /\ map[n].similarity =
                    Abs(pxOriginal[at] - pxOp.centerColor.r)
                    + Abs(pxOriginal[at + 1] - pxOp.centerColor.g)
                    + Abs(pxOriginal[at + 2] - pxOp.centerColor.b)
       /\ Len(sorted) = Min(10, Len(map))
       /\ \A n \in 1 .. Len(sorted) : \E m \in 1 .. Len(map) : sorted[n] = map[m]
       /\ \A n, m \in 1 .. Len(sorted) : n # m => sorted[n].k # sorted[m].k
       /\ \A m \in 1 .. Len(map) :
            (\A n \in 1 .. Len(sorted) : sorted[n] # map[m])
              => \A n \in 1 .. Len(sorted) :
                   sorted[n].similarity <= map[m].similarity

\* more than ten samples were recorded, some were skipped, and an entry
\* recorded among the first ten was left out for a more similar later one
SelectionWitness ==
  /\ pxOp # Null
  /\ pxOp.centerColor.r # Undefined
  /\ Len(pxOp.colorMap) > 10
  /\ Len(pxOp.colorMap) < NUM_SEARCH_SAMPLES
  /\ \E m \in 1 .. 10 :
       \A n \in 1 .. Len(pxOp.sortedColors) :
         pxOp.sortedColors[n] # pxOp.colorMap[m]

\* C19: an applyMagicBrush call leaves the original, every alpha and every
\* pixel farther than the radius from (round(x), round(y)) as they were; the
\* call ends with a buffer of the same size also when mask cells or samples
\* fall outside the canvas.
BrushFootprint ==
  [][pxOp' # Null =>
       /\ pxOriginal' = pxOriginal
       /\ DOMAIN pxWorking' = DOMAIN pxWorking
       /\ \A px \in 0 .. (PxW - 1), py \in 0 .. (PxH - 1) :
            LET at == (py * PxW + px) * 4
                radius == pxOp'.brushSize \div 2
                dx == px - RoundHalf(pxOp'.x)
                dy == py - RoundHalf(pxOp'.y)
            IN /\ pxWorking'[at + 3] = pxWorking[at + 3]
               /\ dx * dx + dy * dy > radius * radius =>
                    /\ pxWorking'[at] = pxWorking[at]
                    /\ pxWorking'[at + 1] = pxWorking[at + 1]
                    /\ pxWorking'[at + 2] = pxWorking[at + 2]]_vars

\* a call near the corner, with mask cells and samples outside the canvas,
\* painted pixels under the mask and left a pixel outside it
FootprintWitness ==
  /\ pxOp # Null
  /\ RoundHalf(pxOp.x) = 0
  /\ RoundHalf(pxOp.y) = 0
  /\ \E k \in 1 .. NUM_SEARCH_SAMPLES : pxOp.samples[k].off
  /\ pxWorking[0] # pxBefore[1][0]
  /\ pxWorking[(PxW - 1) * 4] = pxBefore[1][(PxW - 1) * 4]
  /\ pxWorking[3] = OPAQUE

\* C20: after applyFinalSmoothing every pixel of the rectangle expanded by 10
\* on each side and clamped to the buffer, the pixels within 2 of the border
\* included, has in R, G, B the weighted average of its 5 x 5 neighbourhood,
\* computed from the buffer as it was before the pass.
SmoothingCoverage ==
  (pxOp # Null /\ pxOp.smoothed) =>
    \A px \in 0 .. (SmW - 1), py \in 0 .. (SmH - 1) :
      (/\ 2 * px >= pxOp.x1 - 20 /\ 2 * px <= pxOp.x2 + 20
       /\ 2 * py >= pxOp.y1 - 20 /\ 2 * py <= pxOp.y2 + 20)
      => \A c \in 0 .. 2 :
           pxWorking[(py * SmW + px) * 4 + c]
             = SmoothedValue(pxBefore[1], 2 * px, 2 * py, c, SmW, SmH)

\* C21: applyFinalSmoothing leaves every pixel outside the rectangle expanded
\* by 10 on each side unchanged, and changes no alpha value.
SmoothingFrame ==
  (pxOp # Null /\ pxOp.smoothed) =>
    \A px \in 0 .. (SmW - 1), py \in 0 .. (SmH - 1) :
      LET at == (py * SmW + px) * 4
          outside == \/ 2 * px < pxOp.x1 - 2 * SMOOTHING_PADDING
                     \/ 2 * px > pxOp.x2 + 2 * SMOOTHING_PADDING
                     \/ 2 * py < pxOp.y1 - 2 * SMOOTHING_PADDING
                     \/ 2 * py > pxOp.y2 + 2 * SMOOTHING_PADDING
      IN /\ pxWorking[at + 3] = pxBefore[1][at + 3]
         /\ outside => \A c \in 0 .. 2 : pxWorking[at + c] = pxBefore[1][at + c]

\* C22: on an image of two solid colours that meet at a vertical line, a pass
\* leaves every pixel whose 5 x 5 neighbourhood has one colour with exactly
\* that colour; only pixels within 2 columns of the line can change.
FlatRegions ==
  (pxOp # Null /\ pxOp.smoothed) =>
    \A seed \in PxSeeds :
      pxBefore[1] = SmoothImage("split", seed) =>
        \A px \in 0 .. (SmW - 1), py \in 0 .. (SmH - 1), c \in 0 .. 2 :
          LET at == (py * SmW + px) * 4 + c
              flat == \/ px + 2 < SplitColumn(seed)
                      \/ px - 2 >= SplitColumn(seed)
          IN /\ flat => pxWorking[at] = SplitColour(seed, px < SplitColumn(seed), c)
             /\ pxWorking[at] # pxBefore[1][at]
                  => /\ px >= SplitColumn(seed) - 2
                     /\ px <= SplitColumn(seed) + 1

\* C23: the mask the handlers of a render pass to applyEraser and
\* applyMagicBrush is the one generated for the brush size they pass with it,
\* whatever brush sizes were set before; an eraser call made with it records
\* the radius of that size, and a fill generates its mask from its own size.
MaskConsistency ==
  /\ brushMask = GenerateBrushMask(brushSize)
  /\ DOMAIN brushMask = 0 .. ((2 * (brushSize \div 2) + 1) * (2 * (brushSize \div 2) + 1) - 1)
  /\ \A f \in FillIds : fills[f].brushSize \in BrushSizes

\* the eraser ran after the brush size had been changed twice
MaskConsistencyWitness ==
  /\ brushSize = DEFAULT_BRUSH_SIZE
  /\ Len(annotatedAreas) = 2
  /\ annotatedAreas[1].type = ERASER
  /\ annotatedAreas[1].radius = SLIDER_MIN \div 2
  /\ annotatedAreas[2].type = ERASER
  /\ annotatedAreas[2].radius = DEFAULT_BRUSH_SIZE \div 2

\* no selection: both corners and the snapshot are null
SelectionCleared ==
  areaStart = Null /\ areaEnd = Null /\ tempImageData = NullImage

\* C24: a selection appears only by a drag-start of the area tool, which
\* sets both corners to the pointer and takes the snapshot; while it exists
\* only a drag-move changes it, and only its end corner; a step in which a
\* fill completes, and a cancel, leave both corners and the snapshot null,
\* and they stay null until the next drag-start.
SelectionLifecycle ==
  [][LET dragStart ==
           /\ tool = AREA_MAGIC_BRUSH /\ ~isErasing
           /\ isDrawing'
           /\ areaStart' # Null /\ areaEnd' = areaStart'
           /\ lastPosition' = areaStart'
           /\ tempImageData' = canvas
     IN /\ (SelectionCleared /\ ~SelectionCleared') => dragStart
        /\ (~SelectionCleared /\ ~SelectionCleared'
              /\ <<areaStart, areaEnd, tempImageData>>'
                   # <<areaStart, areaEnd, tempImageData>>)
             => \/ dragStart
                \/ /\ isDrawing /\ tool = AREA_MAGIC_BRUSH
                   /\ areaStart' = areaStart /\ areaEnd' # Null
                   /\ tempImageData' = tempImageData
        /\ (\E f \in FillIds :
              Len(fills'[f].completions) > Len(fills[f].completions))
             => SelectionCleared'
        /\ CancelDrawing => SelectionCleared'
        /\ (areaStart' = Null) = (areaEnd' = Null)
        /\ (areaStart' # Null) => (tempImageData' # NullImage)]_vars

\* a selection was dragged out; its fill was cancelled while suspended, ran
\* on and completed, and there is no selection
LifecycleWitness ==
  /\ SelectionCleared
  /\ ~isDrawing /\ ~isProcessingArea
  /\ Len(fills) = 1 /\ fills[1].pc = "done"
  /\ fills[1].cancelledAt # -1
  /\ fills[1].areaStart # fills[1].areaEnd

\* C25: a fill that has set isProcessingArea ends, after its last chunk or
\* after a chunk has thrown, with isProcessingArea false and
\* processingProgress 0.
BusyFlagReleased ==
  isProcessingArea ~> (~isProcessingArea /\ processingProgress = 0)

\* C26: whenever there is no selection and no fill is running, the canvas
\* holds no selection rectangle.
NoLeftoverOverlay ==
  (areaStart = Null /\ areaEnd = Null /\ \A f \in FillIds : ~Running(f))
    => \A m \in canvas.marks : m.t # "rect"

\* the pixels an applyMagicBrush call at pxOp's point writes when
\* totalWeight > 0: under a non-zero mask cell and inside the canvas
BrushTargets ==
  LET radius == pxOp.brushSize \div 2
      diameter == 2 * radius + 1
      mask == GenerateBrushMask(pxOp.brushSize)
  IN {p \in (0 .. (PxW - 1)) \X (0 .. (PxH - 1)) :
        \E i \in -radius .. radius, j \in -radius .. radius :
          /\ mask[(i + radius) * diameter + (j + radius)] # 0
          /\ RoundHalf(pxOp.x + 2 * j) = p[1]
          /\ RoundHalf(pxOp.y + 2 * i) = p[2]}

\* R, G, B of pixel p of the buffer data
Rgb(data, p) ==
  <<data[(p[2] * PxW + p[1]) * 4], data[(p[2] * PxW + p[1]) * 4 + 1],
    data[(p[2] * PxW + p[1]) * 4 + 2]>>

\* C27: in one applyMagicBrush call that blends (there are kept samples and
\* the reference colour is defined) every pixel written gets the same R, G, B,
\* and each of the three lies between the least and the greatest value of
\* that channel among the kept samples.
UniformFill ==
  (/\ pxOp # Null
   /\ pxOp.sortedColors # <<>>
   /\ pxOp.centerColor.r # Undefined) =>
    LET kept == {pxOp.sortedColors[n] : n \in 1 .. Len(pxOp.sortedColors)}
    IN \A p \in BrushTargets :
         /\ \A q \in BrushTargets : Rgb(pxWorking, p) = Rgb(pxWorking, q)
         /\ \E lo \in kept, hi \in kept :
              lo.r <= Rgb(pxWorking, p)[1] /\ Rgb(pxWorking, p)[1] <= hi.r
         /\ \E lo \in kept, hi \in kept :
              lo.g <= Rgb(pxWorking, p)[2] /\ Rgb(pxWorking, p)[2] <= hi.g
         /\ \E lo \in kept, hi \in kept :
              lo.b <= Rgb(pxWorking, p)[3] /\ Rgb(pxWorking, p)[3] <= hi.b

\* a call blended samples of different colours and wrote several pixels that
\* had different colours, with a red value that none of the samples has
UniformWitness ==
  /\ pxOp # Null
  /\ pxOp.sortedColors # <<>>
  /\ pxOp.centerColor.r # Undefined
  /\ \E p \in BrushTargets, q \in BrushTargets :
       /\ Rgb(pxBefore[1], p) # Rgb(pxBefore[1], q)
       /\ Rgb(pxWorking, p) # Rgb(pxBefore[1], p)
       /\ Rgb(pxWorking, q) # Rgb(pxBefore[1], q)
  /\ \A n \in 1 .. Len(pxOp.sortedColors) :
       pxOp.sortedColors[n].r # pxWorking[CHOOSE k \in {(p[2] * PxW + p[1]) * 4 : p \in BrushTargets} : TRUE]

(* ------------------------------------------------------------------ *)
(* C28. Export always returns to annotation: a call of handleExport     *)
(* sets the step to 'export'; whatever the outcome (download, response  *)
(* that is not ok, rejected fetch or body read) the step returns to     *)
(* 'annotate'; error is non-null only if the last export failed.        *)
(* ------------------------------------------------------------------ *)
ExportStarts ==
  (exportJob.pc # "fetch" /\ exportJob'.pc = "fetch") => currentStep' = "export"

ExportReturns ==
  /\ [][ExportStarts]_vars
  /\ (currentStep = "export") ~> (currentStep = "annotate")
  /\ [](error # Null => exportJob.outcome = "failed")
  /\ [](exportJob.outcome = "ok" => error = Null /\ docProgress = 100)

\* a failed export that has returned to the annotation with its message
ExportReturnsWitness ==
  /\ currentStep = "annotate"
  /\ exportJob.outcome = "failed"
  /\ exportJob.pc = "idle"
  /\ error = <<"Failed to process PDF">>

(* ------------------------------------------------------------------ *)
(* C29. Erase mode implies eraser tool: isErasing is true only when     *)
(* tool is 'eraser', and every call of handleToolChange or              *)
(* handleEraseToggle leaves areaStart, areaEnd and tempImageData        *)
(* cleared.                                                             *)
(* ------------------------------------------------------------------ *)
ToolCall == (\E t \in TOOLS : HandleToolChange(t)) \/ HandleEraseToggle

EraseImpliesEraser ==
  /\ [](isErasing => tool = ERASER)
  /\ [][ToolCall => SelectionCleared']_vars

\* the eraser switched on while a selection rectangle was being dragged
EraserWitness ==
  /\ isErasing
  /\ tool = ERASER
  /\ isDrawing
  /\ SelectionCleared
  /\ \E m \in canvas.marks : m.t = "rect"

(* ------------------------------------------------------------------ *)
(* C30. Page index stays in range: with the pages loaded, after any     *)
(* calls of handlePageNavigation, handleSaveAnnotation and handleExport *)
(* 0 <= currentPageIndex < imageUrls.length; a request for an index     *)
(* out of range changes nothing; a save changes only the saved entry of *)
(* the current page.                                                    *)
(* ------------------------------------------------------------------ *)
OutOfRangeRequest ==
  \E n \in NavRequests \ Pages : HandlePageNavigationCall(n)

SaveOnlyCurrentPage ==
  /\ \A p \in Pages \ {currentPageIndex} : annotatedImages'[p] = annotatedImages[p]
  /\ annotatedImages'[currentPageIndex] =
       [imageData |-> canvas, annotatedAreas |-> annotatedAreas]
  /\ UNCHANGED <<currentPageIndex, stepVars>>

PageIndexInRange ==
  /\ [](currentPageIndex \in Pages)
  /\ [][OutOfRangeRequest =>
          UNCHANGED <<annVars, refVars, canvas, image, docVars, fills, pxVars>>]_vars
  /\ [][HandleSave => SaveOnlyCurrentPage]_vars

\* after an export, the last page shown with its entry saved and the first
\* page's entry still empty
PageIndexWitness ==
  /\ currentPageIndex = NumPages - 1
  /\ annotatedImages[currentPageIndex].imageData = ImageUrls(currentPageIndex)
  /\ annotatedImages[0] = NoEntry
  /\ exportJob.outcome = "ok"
  /\ Annotating

====
